---- MODULE Spec2Model ----
(***************************************************************************)
(* typed-ddb: the Repository (access engine) over a dynamoose model.       *)
(*                                                                         *)
(* One repository is bound to one entity class (schema).  The table of    *)
(* that class is `store`, a set of store-native records.  An entity is a  *)
(* function from field names to values; a field that is undefined is not  *)
(* in the function's domain.  A value that may be undefined is carried as *)
(* a set with at most one element.                                        *)
(*                                                                         *)
(* In-memory forms and store-native forms are different values:           *)
(*   Date                 [time |-> ms]          <->  ms                  *)
(*   JSON object / array  the value itself       <->  [json |-> value]    *)
(*   foreign-key object   [id |-> "u1"]          <->  "u1"                *)
(*   composite key object [userId |-> .., id |-> ..] <-> <<.., "#", ..>>  *)
(***************************************************************************)
EXTENDS Integers, Sequences, FiniteSets, TLC

\* Bounds of the model
MaxTime == 2

VARIABLES
    schema,   \* the entity class the repository was constructed with
    store,    \* the table: a set of store-native records
    now,      \* the clock read by `new Date()`
    last,     \* the last call: its arguments and its outcome
    signal,   \* EntitySignalStore's signal of the class: {} (null) or {event}
    related   \* the tables of the classes the class is joined with, by class name

vars == <<schema, store, now, last, signal, related>>

Range(s) == {s[i] : i \in DOMAIN s}

\* f with field k set to v (k need not be in the domain of f)
Put(f, k, v) == [x \in DOMAIN f \cup {k} |-> IF x = k THEN v ELSE f[x]]

\* f restricted to the fields in ks
Restrict(f, ks) == [x \in DOMAIN f \cap ks |-> f[x]]

\* t[k] as a value that may be undefined
Read(t, k) == IF k \in DOMAIN t THEN {t[k]} ELSE {}

(***************************************************************************)
(* Metadata registry: what the decorators record for each entity class.    *)
(*   keys         the @Attribute fields, in declaration order              *)
(*   type         the 'type' metadata of each field                        *)
(*   optional     the fields with 'optional' metadata true                 *)
(*   partitionKey the fields carrying 'partitionKey' metadata              *)
(*   sortKey      the fields carrying 'sortKey' metadata                   *)
(*   belongsTo    the foreign-key serializer pair of a field               *)
(***************************************************************************)
TestUserClass ==
    [ name |-> "TestUser",
      keys |-> <<"id", "email", "name", "age", "CreatedAt", "UpdatedAt">>,
      type |-> [id |-> "string", email |-> "string", name |-> "string",
                age |-> "number", CreatedAt |-> "date", UpdatedAt |-> "date"],
      optional |-> {"UpdatedAt"},
      partitionKey |-> {"id"},
      sortKey |-> {},
      belongsTo |-> << >>,
      publishChanges |-> TRUE ]

TagClass ==
    [ name |-> "Tag",
      keys |-> <<"name", "category", "description", "usageCount", "CreatedAt">>,
      type |-> [name |-> "string", category |-> "string", description |-> "string",
                usageCount |-> "number", CreatedAt |-> "date"],
      optional |-> {"description"},
      partitionKey |-> {"name"},
      sortKey |-> {"category"},
      belongsTo |-> << >>,
      publishChanges |-> FALSE ]

ProfileClass ==
    [ name |-> "Profile",
      keys |-> <<"userId", "bio", "avatarUrl", "settings", "CreatedAt", "UpdatedAt">>,
      type |-> [userId |-> "string", bio |-> "string", avatarUrl |-> "string",
                settings |-> "object", CreatedAt |-> "date", UpdatedAt |-> "date"],
      optional |-> {"bio", "avatarUrl", "settings", "UpdatedAt"},
      partitionKey |-> {"userId"},
      sortKey |-> {},
      belongsTo |-> [userId |-> "user"],
      publishChanges |-> FALSE ]

CommentClass ==
    [ name |-> "Comment",
      keys |-> <<"postId", "id", "authorId", "content", "CreatedAt", "UpdatedAt">>,
      type |-> [postId |-> "string", id |-> "string", authorId |-> "string",
                content |-> "string", CreatedAt |-> "date", UpdatedAt |-> "date"],
      optional |-> {"UpdatedAt"},
      partitionKey |-> {"postId"},
      sortKey |-> {"id"},
      belongsTo |-> [postId |-> "post", authorId |-> "user"],
      publishChanges |-> FALSE ]

TestEntityClass ==
    [ name |-> "TestEntity",
      keys |-> <<"createdAt", "updatedAt", "id", "name", "count">>,
      type |-> [createdAt |-> "date-iso", updatedAt |-> "date-iso", id |-> "string",
                name |-> "string", count |-> "number"],
      optional |-> {"count"},
      partitionKey |-> {"id"},
      sortKey |-> {},
      belongsTo |-> << >>,
      publishChanges |-> FALSE ]

UserClass ==
    [ name |-> "User",
      keys |-> <<"id", "email", "name", "age", "isActive", "metadata", "tags",
                 "CreatedAt", "UpdatedAt">>,
      type |-> [id |-> "string", email |-> "string", name |-> "string", age |-> "number",
                isActive |-> "boolean", metadata |-> "object", tags |-> "array",
                CreatedAt |-> "date", UpdatedAt |-> "date"],
      optional |-> {"metadata", "tags", "UpdatedAt"},
      partitionKey |-> {"id"},
      sortKey |-> {},
      belongsTo |-> << >>,
      publishChanges |-> FALSE ]

PostClass ==
    [ name |-> "Post",
      keys |-> <<"userId", "id", "title", "content", "status", "publishedAt",
                 "CreatedAt", "UpdatedAt">>,
      type |-> [userId |-> "string", id |-> "string", title |-> "string",
                content |-> "string", status |-> "enums", publishedAt |-> "number",
                CreatedAt |-> "date", UpdatedAt |-> "date"],
      optional |-> {"UpdatedAt"},
      partitionKey |-> {"userId"},
      sortKey |-> {"id"},
      belongsTo |-> [userId |-> "user"],
      publishChanges |-> FALSE ]

\* a class whose fields carry neither @PartitionKey nor @BelongsTo
UnkeyedClass ==
    [ name |-> "Unkeyed",
      keys |-> <<"label", "note">>,
      type |-> [label |-> "string", note |-> "string"],
      optional |-> {"note"},
      partitionKey |-> {},
      sortKey |-> {},
      belongsTo |-> << >>,
      publishChanges |-> FALSE ]

\* the Workflow and File classes of the relationship example: File has a
\* plain @PartitionKey, its @BelongsTo(..., 'index') field is no attribute
WorkflowClass ==
    [ name |-> "Workflow",
      keys |-> <<"workflowId", "status", "createdBy", "CreatedAt">>,
      type |-> [workflowId |-> "string", status |-> "enums", createdBy |-> "string",
                CreatedAt |-> "date"],
      optional |-> {},
      partitionKey |-> {"workflowId"},
      sortKey |-> {},
      belongsTo |-> << >>,
      publishChanges |-> FALSE ]

FileClass ==
    [ name |-> "File",
      keys |-> <<"fileId", "s3Key", "s3Bucket", "fileName", "fileSize", "contentType",
                 "status", "CreatedAt">>,
      type |-> [fileId |-> "string", s3Key |-> "string", s3Bucket |-> "string",
                fileName |-> "string", fileSize |-> "number", contentType |-> "string",
                status |-> "enums", CreatedAt |-> "date"],
      optional |-> {},
      partitionKey |-> {"fileId"},
      sortKey |-> {},
      belongsTo |-> << >>,
      publishChanges |-> FALSE ]

\* a class whose sort key is a number attribute
RevisionClass ==
    [ name |-> "Revision",
      keys |-> <<"docId", "version", "body">>,
      type |-> [docId |-> "string", version |-> "number", body |-> "string"],
      optional |-> {"body"},
      partitionKey |-> {"docId"},
      sortKey |-> {"version"},
      belongsTo |-> << >>,
      publishChanges |-> FALSE ]

ModelClasses == {"TestUser", "Tag", "Profile", "Comment", "TestEntity"}

\* every class with metadata
DecoratedClasses ==
    ModelClasses \cup {"User", "Post", "Unkeyed", "Workflow", "File", "Revision"}

Registry ==
    [c \in DecoratedClasses |->
        CASE c = "TestUser" -> TestUserClass
          [] c = "Tag" -> TagClass
          [] c = "Profile" -> ProfileClass
          [] c = "Comment" -> CommentClass
          [] c = "TestEntity" -> TestEntityClass
          [] c = "User" -> UserClass
          [] c = "Post" -> PostClass
          [] c = "Unkeyed" -> UnkeyedClass
          [] c = "Workflow" -> WorkflowClass
          [] c = "File" -> FileClass
          [] c = "Revision" -> RevisionClass]

\* Reflect.getMetadata(..., ModelClass.prototype, ...)
Meta(c) == Registry[c]

DeclaredKeys == [c \in DecoratedClasses |-> Range(Registry[c].keys)]

\* Reflect.getMetadata('keys', ModelClass.prototype) as a set
KeysOf(c) == DeclaredKeys[c]

(***************************************************************************)
(* Repository.constructor: the dynamoose schema built from the metadata.   *)
(***************************************************************************)
\* hashKey: !!partitionKey
hashKey(c) ==
    UNION {IF m.partitionKey # {} THEN m.partitionKey
           ELSE {m.keys[i] : i \in {1} \cap DOMAIN m.keys} : m \in {Meta(c)}}

\* rangeKey: !!sortKey
rangeKey(c) == {k \in KeysOf(c) : k \in Meta(c).sortKey}

\* required: !optional
required(c) == {k \in KeysOf(c) : k \notin Meta(c).optional}

(***************************************************************************)
(* Key resolver                                                            *)
(***************************************************************************)
FirstKey(c, marked) ==
    LET ks == Meta(c).keys
        idx == {i \in DOMAIN ks : ks[i] \in marked}
    IN  {ks[i] : i \in {j \in idx : \A l \in idx : j <= l}}

\* the first decorated key with 'partitionKey' metadata; {} when the method throws
getPartitionKeyMeta(c) ==
    {[field |-> k, type |-> "string"] : k \in FirstKey(c, Meta(c).partitionKey)}

\* the first decorated key with 'sortKey' metadata; {} when there is none
getSortKeyMeta(c) ==
    {[field |-> k, type |-> "string"] : k \in FirstKey(c, Meta(c).sortKey)}

(***************************************************************************)
(* Value codec                                                             *)
(***************************************************************************)
\* JSON.stringify of a defined value; undefined stays undefined
serializeField(plain) == {[json |-> p] : p \in plain}

\* a parser that hands the stored text back unparsed
deserializeFieldRaw(serialized) == serialized

\* JSON.parse of a stored text (a stored JSON text is never the empty string)
deserializeField(serialized) == {s.json : s \in serialized}

\* Date -> epoch milliseconds
serializeDate(plain) == {p.time : p \in plain}

\* a deserializer that builds a Date from every number, the epoch included
deserializeDateAlways(serialized) == {[time |-> n] : n \in serialized}

\* epoch milliseconds -> Date; 0 is falsy and gives undefined
deserializeDate(serialized) == {[time |-> n] : n \in {m \in serialized : m # 0}}

\* s.split('#') on a string given as its sequence of tokens
RECURSIVE Split(_)
Split(s) ==
    IF \A i \in DOMAIN s : s[i] # "#" THEN <<s>>
    ELSE LET i == CHOOSE j \in DOMAIN s : s[j] = "#" /\ \A l \in 1..(j - 1) : s[l] # "#"
         IN  <<SubSeq(s, 1, i - 1)>> \o Split(SubSeq(s, i + 1, Len(s)))

\* a serializer that forgets the post's id
belongsToOwnerOnly(fn, v) ==
    CASE fn = "user" -> v.id
      [] fn = "post" -> v.userId.id

\* the serializers given to @BelongsTo by the entity classes
belongsTo(fn, v) ==
    CASE fn = "user" -> v.id
      [] fn = "post" -> v.userId.id \o <<"#">> \o v.id

\* the deserializers given to @BelongsTo by the entity classes
belongsToRev(fn, s) ==
    CASE fn = "user" -> [id |-> s]
      [] fn = "post" ->
            LET parts == Split(s)
            IN  IF Len(parts) >= 2
                THEN [userId |-> [id |-> parts[1]], id |-> parts[2]]
                ELSE [userId |-> [id |-> parts[1]]]

fkTransformer(fn, v, mode) ==
    IF mode = "serialize" THEN belongsTo(fn, v) ELSE belongsToRev(fn, v)

\* one iteration of transform's loop: the new value of t[key]
transformKey(c, key, value, mode) ==
    LET type == Meta(c).type[key]
        a == IF type \in {"object", "array"}
             THEN IF mode = "serialize" THEN serializeField(value) ELSE deserializeField(value)
             ELSE value
        b == IF type = "date"
             THEN IF mode = "serialize" THEN serializeDate(a) ELSE deserializeDate(a)
             ELSE a
    IN  IF key \in DOMAIN Meta(c).belongsTo
        THEN {fkTransformer(Meta(c).belongsTo[key], x, mode) : x \in b}
        ELSE b

\* a foreign-key serializer reads a property of undefined
transformThrows(c, t, mode) ==
    \E key \in DOMAIN Meta(c).belongsTo :
        /\ key \notin DOMAIN t
        /\ mode = "serialize" \/ Meta(c).belongsTo[key] = "post"

transform(c, t, mode) ==
    LET defined(new) == [k \in {x \in DOMAIN new : new[x] # {}} |-> CHOOSE v \in new[k] : TRUE]
    IN  defined([k \in DOMAIN t \cup KeysOf(c) |->
                  IF k \in KeysOf(c) THEN transformKey(c, k, Read(t, k), mode) ELSE {t[k]}])

\* the object passed to transform as the call leaves it, whether it returns or
\* throws: the loop assigns to t[key] key by key, and transform returns t
transformInPlace(c, t, mode) ==
    LET keys == Meta(c).keys
        throws(key) == /\ key \in DOMAIN Meta(c).belongsTo
                       /\ key \notin DOMAIN t
                       /\ mode = "serialize" \/ Meta(c).belongsTo[key] = "post"
        stop == IF \E i \in DOMAIN keys : throws(keys[i])
                THEN CHOOSE i \in DOMAIN keys :
                        throws(keys[i]) /\ \A j \in 1..(i - 1) : ~throws(keys[j])
                ELSE Len(keys) + 1
        done == {keys[i] : i \in 1..(stop - 1)}
        new == [k \in DOMAIN t \cup done |->
                  IF k \in done THEN transformKey(c, k, Read(t, k), mode) ELSE {t[k]}]
    IN  [k \in {x \in DOMAIN new : new[x] # {}} |-> CHOOSE v \in new[k] : TRUE]

\* the keys transform assigns the value undefined to
undefinedKeys(c, t, mode) ==
    {k \in KeysOf(c) : /\ Meta(c).type[k] \in {"object", "array", "date"}
                       /\ transformKey(c, k, Read(t, k), mode) = {}}

\* a transform that turns null into an empty object
transformNullToObject(c, tm, mode) ==
    IF tm = {} THEN {[k \in {} |-> k]} ELSE {transform(c, t, mode) : t \in tm}

\* transform(t | null, mode)
transformOrNull(c, tm, mode) == {transform(c, t, mode) : t \in tm}

\* the numbers callers pass where a string key is declared
NumberKeys == {42}

\* typeof v is 'number'
isNumber(v) == ToString(v) \in {ToString(n) : n \in NumberKeys}

(***************************************************************************)
(* The dynamoose model of the class over the table                         *)
(***************************************************************************)
keyOf(c, rec) == Restrict(rec, hashKey(c) \cup rangeKey(c))

\* a store that answers an incomplete key with the items that match it
modelGetPartial(c, st, inputKey) ==
    [error |-> "", item |-> {r \in st : Restrict(r, DOMAIN inputKey) = inputKey}]

\* a store that looks items up by the partition key alone
modelGetByHashKey(c, st, inputKey) ==
    IF DOMAIN inputKey # hashKey(c) \cup rangeKey(c)
    THEN [error |-> "The number of conditions on the keys is invalid", item |-> {}]
    ELSE [error |-> "",
          item |-> {r \in st : Restrict(r, hashKey(c)) = Restrict(inputKey, hashKey(c))}]

\* model.get(inputKey); a number in NumberKeys is handed in where the key
\* attribute is a string
modelGet(c, st, inputKey) ==
    IF DOMAIN inputKey # hashKey(c) \cup rangeKey(c)
    THEN [error |-> "The number of conditions on the keys is invalid", item |-> {}]
    ELSE IF \E k \in DOMAIN inputKey : isNumber(inputKey[k])
    THEN [error |-> "The provided key element does not match the schema", item |-> {}]
    ELSE [error |-> "", item |-> {r \in st : keyOf(c, r) = inputKey}]

\* a store whose create is an unconditional put
modelCreatePut(c, st, rec) ==
    IF required(c) \ DOMAIN rec # {}
    THEN [error |-> "ValidationError", store |-> st]
    ELSE [error |-> "", store |-> {r \in st : keyOf(c, r) # keyOf(c, rec)} \cup {rec}]

\* model.create(rec): a put that requires the required attributes and that
\* no item is stored under the key of rec (overwrite is false by default)
modelCreate(c, st, rec) ==
    IF required(c) \ DOMAIN rec # {}
    THEN [error |-> "ValidationError", store |-> st]
    ELSE IF \E r \in st : keyOf(c, r) = keyOf(c, rec)
    THEN [error |-> "ConditionalCheckFailedException", store |-> st]
    ELSE [error |-> "", store |-> st \cup {rec}]

\* a store whose update is a put of the attributes rec gives
modelUpdatePut(c, st, rec, undef) ==
    [error |-> "",
     store |-> {r \in st : keyOf(c, r) # keyOf(c, rec)} \cup {Restrict(rec, DOMAIN rec \ undef)}]

\* model.update(rec): an update of the item under the key of rec that sets the
\* attributes rec gives, removes the declared attributes rec holds as undefined
\* and creates the item when there is none
modelUpdate(c, st, rec, undef) ==
    LET old == {r \in st : keyOf(c, r) = keyOf(c, rec)}
        base == IF old = {} THEN keyOf(c, rec) ELSE CHOOSE r \in old : TRUE
        merged == [k \in (DOMAIN base \cup DOMAIN rec) \ undef |->
                      IF k \in DOMAIN rec THEN rec[k] ELSE base[k]]
    IN  IF undef \cap required(c) # {}
        THEN [error |-> "ValidationError", store |-> st]
        ELSE [error |-> "", store |-> (st \ old) \cup {merged}]

\* a delete that empties the table
itemDeleteAll(c, st, item) == {}

\* item.delete(): a delete request for the key of the item
itemDelete(c, st, item) == {r \in st : keyOf(c, r) # keyOf(c, item)}

(***************************************************************************)
(* Signals                                                                 *)
(***************************************************************************)
\* EntitySignalStore.emit: the signal's new value
emit(c, event, entity, previous, time) ==
    {[entityClass |-> c, event |-> event, entity |-> entity,
      previous |-> previous, timestamp |-> time]}

\* SignalTriggerManager.executeTriggers: the signal of the class afterwards
executeTriggers(c, sig, event, entity, previous, time) ==
    IF Meta(c).publishChanges THEN emit(c, event, entity, previous, time) ELSE sig

(***************************************************************************)
(* Repository operations.  Each gives the outcome of one call on the table *)
(* st: error ("" when the call resolves), the value it resolves with ({}   *)
(* for null or none), the table and the signal afterwards.                 *)
(***************************************************************************)
Rejected(e, st, sig) == [error |-> e, value |-> {}, store |-> st, signal |-> sig]

\* typeof of a partition key value handed to get
typeofKey(c, v) ==
    IF isNumber(v) THEN "number"
    ELSE IF \E m \in getPartitionKeyMeta(c) : m.field \in DOMAIN Meta(c).belongsTo
    THEN "object" ELSE "string"

\* partitionKeyMeta.type.name: the type metadata is a string, which has no name
typeName(type) == {}

\* a sort key argument that is not undefined, '', 0 or another falsy value
truthy(v) == \E x \in v : ToString(x) \notin {ToString(""), ToString(0)}

\* { [field]: serializer ? serializer(value) : value }
serializeKey(c, field, value) ==
    IF field \in DOMAIN Meta(c).belongsTo
    THEN belongsTo(Meta(c).belongsTo[field], value)
    ELSE value

\* the input key get and delete build from their arguments
inputKeyOf(c, pk, sk) ==
    LET pm == CHOOSE m \in getPartitionKeyMeta(c) : TRUE
        key == [f \in {pm.field} |-> serializeKey(c, pm.field, pk)]
    IN  IF getSortKeyMeta(c) # {} /\ truthy(sk)
        THEN LET sm == CHOOSE m \in getSortKeyMeta(c) : TRUE
             IN  Put(key, sm.field, serializeKey(c, sm.field, CHOOSE x \in sk : TRUE))
        ELSE key

\* Repository.get(partitionKeyValue, sortKeyValue) without joins
get(c, st, sig, pk, sk) ==
    IF getPartitionKeyMeta(c) = {}
    THEN Rejected("No field annotated with @PartitionKey found.", st, sig)
    ELSE LET pm == CHOOSE m \in getPartitionKeyMeta(c) : TRUE
         IN  IF typeName(pm.type) # {} /\ typeofKey(c, pk) # pm.type
             THEN Rejected("Invalid type for partition key", st, sig)
             ELSE LET g == modelGet(c, st, inputKeyOf(c, pk, sk))
                  IN  IF g.error # "" THEN Rejected(g.error, st, sig)
                      ELSE [error |-> "",
                            value |-> transformOrNull(c, g.item, "deserialize"),
                            store |-> st, signal |-> sig]

\* Repository.create(item)
create(c, st, sig, time, item) ==
    LET createdAt == [time |-> time]
        i1 == IF "CreatedAt" \in KeysOf(c) THEN Put(item, "CreatedAt", createdAt) ELSE item
        i2 == IF "UpdatedAt" \in KeysOf(c) THEN Put(i1, "UpdatedAt", createdAt) ELSE i1
    IN  IF transformThrows(c, i2, "serialize") THEN Rejected("TypeError", st, sig)
        ELSE LET ser == transform(c, i2, "serialize")
                 w == modelCreate(c, st, ser)
                 result == transform(c, ser, "deserialize")
             IN  IF w.error # "" THEN Rejected(w.error, st, sig)
                 ELSE [error |-> "", value |-> {result}, store |-> w.store,
                       signal |-> executeTriggers(c, sig, "create", result, {}, time)]

\* the caller's item object as create leaves it: create sets the timestamps on
\* it, serializes it in place, and deserializes it in place once the store has
\* accepted it
itemAfterCreate(c, st, time, item) ==
    LET createdAt == [time |-> time]
        i1 == IF "CreatedAt" \in KeysOf(c) THEN Put(item, "CreatedAt", createdAt) ELSE item
        i2 == IF "UpdatedAt" \in KeysOf(c) THEN Put(i1, "UpdatedAt", createdAt) ELSE i1
        ser == transformInPlace(c, i2, "serialize")
    IN  IF transformThrows(c, i2, "serialize") THEN ser
        ELSE IF modelCreate(c, st, ser).error # "" THEN ser
        ELSE transformInPlace(c, ser, "deserialize")

\* the input key update builds from the item
updateKeyOf(c, item) ==
    LET pm == CHOOSE m \in getPartitionKeyMeta(c) : TRUE
        key == [f \in {pm.field} |-> serializeKey(c, pm.field, item[pm.field])]
    IN  IF getSortKeyMeta(c) # {}
        THEN LET sm == CHOOSE m \in getSortKeyMeta(c) : TRUE
             IN  Put(key, sm.field, serializeKey(c, sm.field, item[sm.field]))
        ELSE key

\* Repository.update(item)
update(c, st, sig, time, item) ==
    IF getPartitionKeyMeta(c) = {}
    THEN Rejected("No field annotated with @PartitionKey found.", st, sig)
    ELSE LET g == modelGet(c, st, updateKeyOf(c, item))
             previousItem == transformOrNull(c, g.item, "deserialize")
             i1 == IF "UpdatedAt" \in KeysOf(c)
                   THEN Put(item, "UpdatedAt", [time |-> time]) ELSE item
         IN  IF g.error # "" THEN Rejected(g.error, st, sig)
             ELSE IF transformThrows(c, i1, "serialize") THEN Rejected("TypeError", st, sig)
             ELSE LET ser == transform(c, i1, "serialize")
                      w == modelUpdate(c, st, ser, undefinedKeys(c, i1, "serialize"))
                      result == transform(c, ser, "deserialize")
                  IN  IF w.error # "" THEN Rejected(w.error, st, sig)
                      ELSE [error |-> "", value |-> {result}, store |-> w.store,
                            signal |-> executeTriggers(c, sig, "update", result,
                                                       previousItem, time)]

\* Repository.delete(partitionKeyValue, sortKeyValue)
delete(c, st, sig, time, pk, sk) ==
    IF getPartitionKeyMeta(c) = {}
    THEN Rejected("No field annotated with @PartitionKey found.", st, sig)
    ELSE LET g == modelGet(c, st, inputKeyOf(c, pk, sk))
         IN  IF g.error # "" THEN Rejected(g.error, st, sig)
             ELSE IF g.item = {} THEN Rejected("is not found for deletion", st, sig)
             ELSE LET toBeDeleted == CHOOSE r \in g.item : TRUE
                      previousItem == transform(c, toBeDeleted, "deserialize")
                  IN  [error |-> "", value |-> {},
                       store |-> itemDelete(c, st, toBeDeleted),
                       signal |-> executeTriggers(c, sig, "delete", previousItem,
                                                  {previousItem}, time)]

(***************************************************************************)
(* Query: the store's query request and Repository.query over it.          *)
(***************************************************************************)
\* the page size of a query that names no limit (1000 in the source, scaled)
DefaultLimit == 3

\* the store's ascending order of the sort key strings in use
SortKeyOrder == <<"c1", "lang", "lib", "post-1", "post-2", "post-3", "post-4">>

Collate(s) == CHOOSE i \in DOMAIN SortKeyOrder : SortKeyOrder[i] = s

\* the metadata 'partitionKey(<index>)' that @Index and @BelongsTo(.., 'index')
\* define: the partition key field of each named secondary index
IndexPartitionKey(c) ==
    CASE c = "User" -> [emailGlobalIndex |-> "email"]
      [] c = "Post" -> [StatusIndex |-> "status"]
      [] c = "Comment" -> [authorIdGlobalIndex |-> "authorId"]
      [] OTHER -> << >>

\* getPartitionKeyMeta(secondaryIndexName); {} when the method throws
getPartitionKeyMetaOf(c, secondaryIndexName) ==
    IF secondaryIndexName = {} THEN getPartitionKeyMeta(c)
    ELSE {[field |-> IndexPartitionKey(c)[i], type |-> "string"] :
             i \in secondaryIndexName \cap DOMAIN IndexPartitionKey(c)}

\* a store condition {operator: value} on a sort key value v
\* a store that reads "greater than" as "greater than or equal"
satisfiesInclusive(v, cnd) ==
    LET operator == CHOOSE o \in DOMAIN cnd : TRUE
        x == cnd[operator]
    IN  CASE operator = "eq" -> Collate(v) = Collate(x)
          [] operator = "gt" -> Collate(v) >= Collate(x)
          [] operator = "ge" -> Collate(v) >= Collate(x)
          [] operator = "lt" -> Collate(v) < Collate(x)
          [] operator = "le" -> Collate(v) <= Collate(x)
          [] operator = "between" ->
                Collate(x[1]) <= Collate(v) /\ Collate(v) <= Collate(x[2])

satisfies(v, cnd) ==
    LET operator == CHOOSE o \in DOMAIN cnd : TRUE
        x == cnd[operator]
    IN  CASE operator = "eq" -> Collate(v) = Collate(x)
          [] operator = "gt" -> Collate(v) > Collate(x)
          [] operator = "ge" -> Collate(v) >= Collate(x)
          [] operator = "lt" -> Collate(v) < Collate(x)
          [] operator = "le" -> Collate(v) <= Collate(x)
          [] operator = "between" ->
                Collate(x[1]) <= Collate(v) /\ Collate(v) <= Collate(x[2])

\* the records of S in ascending order of the range key
RECURSIVE Ascending(_, _)
Ascending(c, S) ==
    IF S = {} THEN << >>
    ELSE LET first == CHOOSE r \in S :
                        \A q \in S : \A k \in rangeKey(c) : Collate(r[k]) <= Collate(q[k])
         IN  <<first>> \o Ascending(c, S \ {first})

\* a store that reports a key only when items remain after the page
modelQueryMoreOnly(c, st, conditions, startAt, limit) ==
    LET matching == {r \in st :
                        /\ \A k \in hashKey(c) : r[k] = conditions[k]
                        /\ \A k \in rangeKey(c) \cap DOMAIN conditions :
                               satisfies(r[k], conditions[k])}
        after == {r \in matching :
                     \A k \in rangeKey(c), s \in startAt : Collate(r[k]) > Collate(s[k])}
        rows == Ascending(c, after)
        page == SubSeq(rows, 1, IF Len(rows) < limit THEN Len(rows) ELSE limit)
    IN  [items |-> page, count |-> Len(page),
         lastKey |-> IF Len(rows) > limit THEN {keyOf(c, page[limit])} ELSE {}]

\* a store that starts a page at the start key instead of after it
modelQueryInclusive(c, st, conditions, startAt, limit) ==
    LET matching == {r \in st :
                        /\ \A k \in hashKey(c) : r[k] = conditions[k]
                        /\ \A k \in rangeKey(c) \cap DOMAIN conditions :
                               satisfies(r[k], conditions[k])}
        after == {r \in matching :
                     \A k \in rangeKey(c), s \in startAt : Collate(r[k]) >= Collate(s[k])}
        rows == Ascending(c, after)
        page == SubSeq(rows, 1, IF Len(rows) < limit THEN Len(rows) ELSE limit)
    IN  [items |-> page, count |-> Len(page),
         lastKey |-> IF Len(rows) >= limit THEN {keyOf(c, page[limit])} ELSE {}]

\* this.model.query(conditions).startAt(startAt).limit(limit).exec(): the store
\* reads the partition in ascending range key order from after startAt, stops
\* once it has read `limit` items, and then reports the key it stopped at
modelQuery(c, st, conditions, startAt, limit) ==
    LET matching == {r \in st :
                        /\ \A k \in hashKey(c) : r[k] = conditions[k]
                        /\ \A k \in rangeKey(c) \cap DOMAIN conditions :
                               satisfies(r[k], conditions[k])}
        after == {r \in matching :
                     \A k \in rangeKey(c), s \in startAt : Collate(r[k]) > Collate(s[k])}
        rows == Ascending(c, after)
        page == SubSeq(rows, 1, IF Len(rows) < limit THEN Len(rows) ELSE limit)
    IN  [items |-> page, count |-> Len(page),
         lastKey |-> IF Len(rows) >= limit THEN {keyOf(c, page[limit])} ELSE {}]

\* a postProcess that hands no lastKey on
postProcessKeyless(c, raw) ==
    [error |-> "",
     items |-> [i \in DOMAIN raw.items |-> transform(c, raw.items[i], "deserialize")],
     count |-> raw.count,
     lastKey |-> {}]

\* Repository.postProcess(raw); JSON.stringify(undefined) is undefined
postProcess(c, raw) ==
    [error |-> "",
     items |-> [i \in DOMAIN raw.items |-> transform(c, raw.items[i], "deserialize")],
     count |-> raw.count,
     lastKey |-> {[json |-> k] : k \in raw.lastKey}]

QueryRejected(e) == [error |-> e, items |-> << >>, count |-> 0, lastKey |-> {}]

\* options of a query that gives none
NoOptions == [index |-> {}, limit |-> {}, lastKey |-> {}]

\* Repository.query(partitionKeyValue, sortKeyCondition, options); the
\* condition and each option are {} when not given
query(c, st, partitionKeyValue, sortKeyCondition, options) ==
    IF getPartitionKeyMetaOf(c, options.index) = {}
    THEN QueryRejected("No field annotated with @PartitionKey found.")
    ELSE IF sortKeyCondition # {} /\ getSortKeyMeta(c) = {}
    THEN QueryRejected("TypeError")
    ELSE LET hashKeyMeta == CHOOSE m \in getPartitionKeyMetaOf(c, options.index) : TRUE
             serialized == serializeKey(c, hashKeyMeta.field, partitionKeyValue)
             hashCondition == [f \in {hashKeyMeta.field} |-> serialized]
             conditions ==
                 IF sortKeyCondition = {} THEN hashCondition
                 ELSE LET sortKeyMeta == CHOOSE m \in getSortKeyMeta(c) : TRUE
                          cnd == CHOOSE x \in sortKeyCondition : TRUE
                          operator == CHOOSE o \in DOMAIN cnd : TRUE
                      IN  Put(hashCondition, sortKeyMeta.field,
                              [o \in {operator} |->
                                  serializeKey(c, sortKeyMeta.field, cnd[operator])])
             startAt == {k.json : k \in options.lastKey}
             limit == IF options.limit = {} THEN DefaultLimit
                      ELSE CHOOSE n \in options.limit : TRUE
         IN  postProcess(c, modelQuery(c, st, conditions, startAt, limit))

\* Repository.getWithUniqueHashKey(hashKeyValue)
\* a lookup that returns the first row of the partition however many there are
getFirstOfHashKey(c, st, hashKeyValue) ==
    LET array == query(c, st, hashKeyValue, {}, NoOptions)
    IN  IF array.error # "" THEN [error |-> array.error, value |-> {}]
        ELSE IF array.count = 0 THEN [error |-> "", value |-> {}]
        ELSE [error |-> "", value |-> {array.items[1]}]

getWithUniqueHashKey(c, st, hashKeyValue) ==
    LET array == query(c, st, hashKeyValue, {}, NoOptions)
    IN  IF array.error # "" THEN [error |-> array.error, value |-> {}]
        ELSE IF array.count > 1
        THEN [error |-> "Hash key has more than 1 row", value |-> {}]
        ELSE IF array.count = 0 THEN [error |-> "", value |-> {}]
        ELSE [error |-> "", value |-> {array.items[1]}]

(***************************************************************************)
(* Scan, construction, and how far a handler gets before it calls the      *)
(* store.                                                                  *)
(***************************************************************************)
\* getSortKeyMeta(secondaryIndexName): no class of the model declares an index
\* with a sort key
getSortKeyMetaOf(c, secondaryIndexName) ==
    IF secondaryIndexName = {} THEN getSortKeyMeta(c) ELSE {}

\* the order in which the store reads the partitions of a table during a
\* scan: an order of its own, the same for every request
HashOrder == <<"u2", "js", "b", "u1", "a", "t2", "t1">>

\* the place of a stored item in the scan: its partition in HashOrder, then
\* its range key in ascending order
ScanPlace(c, r) ==
    <<CHOOSE i \in DOMAIN HashOrder : \A k \in hashKey(c) : HashOrder[i] = r[k],
      IF rangeKey(c) = {} THEN 0 ELSE CHOOSE n \in 1..Len(SortKeyOrder) :
                                        \A k \in rangeKey(c) : Collate(r[k]) = n>>

\* place p comes before place q
Before(p, q) == p[1] < q[1] \/ (p[1] = q[1] /\ p[2] < q[2])

\* the records of S in the order the scan reads them
RECURSIVE Scanned(_, _)
Scanned(c, S) ==
    IF S = {} THEN << >>
    ELSE LET first == CHOOSE r \in S :
                        \A q \in S : q = r \/ Before(ScanPlace(c, r), ScanPlace(c, q))
         IN  <<first>> \o Scanned(c, S \ {first})

\* an attribute value passes a filter condition
passes(v, cnd) == IF "eq" \in DOMAIN cnd THEN v = cnd.eq ELSE satisfies(v, cnd)

\* a store that filters the items before it counts them against the limit,
\* as a query does with its key conditions
modelScanFilterFirst(c, st, conditions, index, startAt, limit) ==
    LET rows == Scanned(c, {r \in st :
                    /\ \A k \in startAt : Before(ScanPlace(c, k), ScanPlace(c, r))
                    /\ \A k \in DOMAIN conditions :
                           k \in DOMAIN r /\ passes(r[k], conditions[k])})
        size == IF Len(rows) < limit THEN Len(rows) ELSE limit
    IN  {[error |-> "", items |-> {rows[i] : i \in 1..size}, count |-> size,
          lastKey |-> IF Len(rows) < limit THEN {} ELSE {keyOf(c, rows[size])}]}

\* this.model.scan(conditions).using(index).startAt(startAt).limit(limit)
\* .exec(): the possible responses. The store reads up to `limit` items from
\* after startAt, keeps those that pass the conditions, and reports the key
\* it stopped at when it has read `limit` items
modelScan(c, st, conditions, index, startAt, limit) ==
    IF index # {} /\ ~(index \subseteq DOMAIN IndexPartitionKey(c))
    THEN {[error |-> "The table does not have the specified index",
           items |-> {}, count |-> 0, lastKey |-> {}]}
    ELSE LET respond(rows) ==
                 LET size == IF Len(rows) < limit THEN Len(rows) ELSE limit
                     kept == {rows[i] : i \in {j \in 1..size :
                                 \A k \in DOMAIN conditions :
                                     /\ k \in DOMAIN rows[j]
                                     /\ passes(rows[j][k], conditions[k])}}
                 IN  [error |-> "", items |-> kept, count |-> Cardinality(kept),
                      lastKey |-> IF Len(rows) < limit THEN {}
                                  ELSE {keyOf(c, rows[size])}]
         IN  {respond(Scanned(c, {r \in st : \A k \in startAt :
                                     Before(ScanPlace(c, k), ScanPlace(c, r))}))}

\* the outcome of a scan that threw before it called the store
ScanRejected(e) ==
    [error |-> e, items |-> {}, count |-> 0, lastKey |-> {}, issued |-> FALSE]

\* one condition of a filter, serialized for the field it is put on
scanCondition(c, field, cnd) ==
    [o \in {CHOOSE x \in DOMAIN cnd : TRUE} |-> serializeKey(c, field, cnd[o])]

\* Repository.scan(filters, options): the possible outcomes; `issued` tells
\* whether the store was called. A filter is {} (undefined) or {condition},
\* a condition an object with one entry per operator
scan(c, st, filters, options) ==
    IF \E cnd \in filters.partitionKey : Cardinality(DOMAIN cnd) # 1
    THEN {ScanRejected("Must have only one filter condition for hashKey during scan")}
    ELSE IF filters.partitionKey # {} /\ getPartitionKeyMetaOf(c, options.index) = {}
    THEN {ScanRejected("No field annotated with @PartitionKey found.")}
    ELSE IF \E cnd \in filters.sortKey : Cardinality(DOMAIN cnd) > 1
    THEN {ScanRejected("Must have maximum one filter condition for sortKey during scan")}
    ELSE IF filters.sortKey # {} /\ getSortKeyMetaOf(c, options.index) = {}
    THEN {ScanRejected("TypeError")}
    ELSE IF \E cnd \in filters.sortKey : DOMAIN cnd = {}
    THEN {ScanRejected("TypeError")}
    ELSE LET given ==
                 {[f \in {m.field} |-> scanCondition(c, m.field, cnd)] :
                     m \in getPartitionKeyMetaOf(c, options.index),
                     cnd \in filters.partitionKey}
                 \cup
                 {[f \in {m.field} |-> scanCondition(c, m.field, cnd)] :
                     m \in getSortKeyMetaOf(c, options.index),
                     cnd \in filters.sortKey}
             limit == IF options.limit = {} THEN DefaultLimit
                      ELSE CHOOSE n \in options.limit : TRUE
             respond(conditions) ==
                 {[error |-> raw.error,
                   items |-> {transform(c, r, "deserialize") : r \in raw.items},
                   count |-> raw.count,
                   lastKey |-> {[json |-> k] : k \in raw.lastKey},
                   issued |-> TRUE] :
                     raw \in modelScan(c, st, conditions, options.index,
                                       {k.json : k \in options.lastKey}, limit)}
         IN  respond([f \in UNION {DOMAIN g : g \in given} |->
                        (CHOOSE g \in given : f \in DOMAIN g)[f]])

\* get has resolved the partition key and passed its type check: it calls
\* model.get
getIssued(c, pk) ==
    \E pm \in getPartitionKeyMeta(c) :
        ~(typeName(pm.type) # {} /\ typeofKey(c, pk) # pm.type)

\* update has resolved the partition key and built the input key from the
\* item: it calls model.get
updateIssued(c, item) ==
    /\ getPartitionKeyMeta(c) # {}
    /\ \A m \in getPartitionKeyMeta(c) \cup getSortKeyMeta(c) :
           m.field \in DOMAIN Meta(c).belongsTo => m.field \in DOMAIN item

\* delete has resolved the partition key: it calls model.get
deleteIssued(c) == getPartitionKeyMeta(c) # {}

\* query has resolved the keys of its scope: it calls model.query
queryIssued(c, sortKeyCondition, options) ==
    /\ getPartitionKeyMetaOf(c, options.index) # {}
    /\ sortKeyCondition = {} \/ getSortKeyMeta(c) # {}

\* new Repository(ModelClass): the constructor reads the metadata of every
\* decorated key into the schema of the table and never throws; a table none
\* of whose attributes is flagged as hash key is keyed by its first attribute
construct(c) ==
    [error |-> "",
     schema |-> [hashKey |-> hashKey(c), rangeKey |-> rangeKey(c), required |-> required(c)]]

(***************************************************************************)
(* Joins                                                                   *)
(***************************************************************************)
\* the 'hasOne' and 'hasMany' metadata of the 'joinTables' of a class
JoinTables(c) ==
    CASE c = "User" -> [profile |-> [meta |-> "hasOne", repo |-> "Profile"],
                        posts |-> [meta |-> "hasMany", repo |-> "Post"]]
      [] c = "Post" -> [comments |-> [meta |-> "hasMany", repo |-> "Comment"]]
      [] c = "Workflow" -> [document |-> [meta |-> "hasOne", repo |-> "File"]]
      [] OTHER -> << >>

\* Repository.resolveRelatedRepositories()
resolveRelatedRepositories(c) == JoinTables(c)

JoinError(cls) ==
    CASE cls = "Post" -> "Unable to join all rows of Post"
      [] cls = "Comment" -> "Unable to join all rows of Comment"
      [] OTHER -> "Unable to join all rows"

\* the partition key field of the related class has a @BelongsTo serializer
hasSerializer(c) ==
    \E m \in getPartitionKeyMeta(c) : m.field \in DOMAIN Meta(c).belongsTo

\* this.model.query({[field]: entity}): the answer of the store to a key
\* condition whose value is an entity object instead of a key string
modelQueryEntity(c) ==
    [error |-> "InvalidFilterComparison", items |-> << >>, count |-> 0, lastKey |-> {}]

\* joinTable.repo.query(result): the related repository serializes the owner
\* with the serializer of its partition key, and hands it on as it is when
\* that field has none
queryJoined(c, st, result) ==
    IF getPartitionKeyMeta(c) = {}
    THEN QueryRejected("No field annotated with @PartitionKey found.")
    ELSE IF hasSerializer(c) THEN query(c, st, result, {}, NoOptions)
    ELSE modelQueryEntity(c)

\* the get found its item and ran the query of a join with the item itself,
\* unserialized, as the partition key value
queriedWithEntity(c, g, joins) ==
    /\ g.error = "" /\ g.value # {}
    /\ \E i \in DOMAIN joins :
           /\ ~hasSerializer(JoinTables(c)[joins[i]].repo)
           /\ getPartitionKeyMeta(JoinTables(c)[joins[i]].repo) # {}
           /\ \A j \in 1..(i - 1) : hasSerializer(JoinTables(c)[joins[j]].repo)

\* Repository.get(partitionKeyValue, sortKeyValue, joins); rel gives the table
\* of each related class, joins is the list of join fields
getWithJoins(c, st, rel, sig, pk, sk, joins) ==
    LET repos == resolveRelatedRepositories(c)
        attach(result, joined) ==
            LET partial == {i \in DOMAIN joins :
                              \/ joined[joins[i]].error # ""
                              \/ /\ repos[joins[i]].meta = "hasMany"
                                 /\ joined[joins[i]].lastKey # {}}
                attached == {j \in Range(joins) :
                               repos[j].meta = "hasMany" \/ joined[j].count > 0}
            IN  IF partial # {}
                THEN LET i == CHOOSE x \in partial : \A y \in partial : x <= y
                     IN  Rejected(IF joined[joins[i]].error # "" THEN joined[joins[i]].error
                                  ELSE JoinError(repos[joins[i]].repo), st, sig)
                ELSE [error |-> "",
                      value |-> {[k \in DOMAIN result \cup attached |->
                                    IF k \in attached
                                    THEN IF repos[k].meta = "hasOne"
                                         THEN joined[k].items[1] ELSE joined[k].items
                                    ELSE result[k]]},
                      store |-> st, signal |-> sig]
        joinAll(result) ==
            attach(result,
                   [j \in Range(joins) |->
                       queryJoined(repos[j].repo, rel[repos[j].repo], result)])
        joinOnto(g) ==
            IF g.error # "" \/ g.value = {} \/ joins = << >> THEN g
            ELSE joinAll(CHOOSE v \in g.value : TRUE)
    IN  joinOnto(get(c, st, sig, pk, sk))

(***************************************************************************)
(* The calls of the model: entities conforming to each class, and keys.    *)
(***************************************************************************)
Dates(t) == {[time |-> n] : n \in 1..t}

\* the partition key values callers use
PartitionKeys(c) ==
    CASE c = "TestUser" -> {"u1", "u2"}
      [] c = "Tag" -> {"js"}
      [] c = "Profile" -> {[id |-> "u1"], [id |-> "u2"]}
      [] c = "Comment" -> {[userId |-> [id |-> <<"u1">>], id |-> <<"p1">>],
                           [userId |-> [id |-> <<"u1">>], id |-> <<"p2">>]}
      [] c = "TestEntity" -> {"t1", "t2"}
      [] c = "User" -> {"u1", "u2"}
      [] c = "Post" -> {[id |-> "u1"], [id |-> "u2"]}
      [] c = "Unkeyed" -> {"a", "b"}
      [] c = "Workflow" -> {"w1", "w2"}
      [] c = "File" -> {"f1", "f2"}
      [] c = "Revision" -> {"d1"}

\* the sort key values callers use
SortKeys(c) ==
    CASE c = "Tag" -> {"lang", "lib"}
      [] c = "Comment" -> {"c1"}
      [] c = "Post" -> {"post-1", "post-2", "post-3", "post-4"}
      [] c = "Revision" -> {0, 1}
      [] OTHER -> {}

\* the sort key argument of get and delete: a value or undefined
SortKeyArgs(c) == {{}} \cup {{x} : x \in SortKeys(c)}

\* the items handed to create: every required field but the timestamps
CreateItems(c) ==
    CASE c = "TestUser" ->
            [id : PartitionKeys(c), email : {"a@b.com"}, name : {"n"}, age : {30}]
      [] c = "Tag" ->
            [name : PartitionKeys(c), category : SortKeys(c), usageCount : {100}]
            \cup [name : PartitionKeys(c), category : SortKeys(c), usageCount : {100},
                  description : {"d"}]
      [] c = "Profile" ->
            [userId : PartitionKeys(c)]
            \cup [userId : PartitionKeys(c), bio : {"bio"}, settings : {[theme |-> "dark"]}]
      [] c = "Comment" ->
            [postId : PartitionKeys(c), id : SortKeys(c), authorId : {[id |-> "au"]},
             content : {"hi"}]
      [] c = "TestEntity" ->
            [id : PartitionKeys(c), name : {"n"}]
            \cup [id : PartitionKeys(c), name : {"n"}, count : {1}]
      [] c = "User" ->
            [id : PartitionKeys(c), email : {"a@b.com"}, name : {"n"}, age : {30},
             isActive : {TRUE}]
      [] c = "Post" ->
            {i \in [userId : PartitionKeys(c), id : SortKeys(c), title : {"t"},
                    content : {"hi"}, status : {"published"}, publishedAt : {1000}] :
                i.userId.id = "u1" \/ i.id = "post-1"}
      [] c = "Unkeyed" ->
            [label : PartitionKeys(c)] \cup [label : PartitionKeys(c), note : {"n"}]
      [] c = "Workflow" ->
            [workflowId : PartitionKeys(c), status : {"UPLOADED"}, createdBy : {"u1"}]
      [] c = "Revision" ->
            [docId : PartitionKeys(c), version : SortKeys(c)]
            \cup [docId : PartitionKeys(c), version : SortKeys(c), body : {"text"}]
      [] c = "File" ->
            [fileId : PartitionKeys(c), s3Key : {"k"}, s3Bucket : {"b"}, fileName : {"n"},
             fileSize : {10}, contentType : {"text/plain"}, status : {"PENDING", "UPLOADED"}]

\* the items handed to update: as for create, with or without the creation
\* timestamp of an earlier result passed through
UpdateItems(c, t) ==
    IF c = "TestEntity"
    THEN CreateItems(c)
         \cup {Put(Put(i, "createdAt", d), "updatedAt", d) : i \in CreateItems(c), d \in Dates(t)}
    ELSE CreateItems(c)
         \cup {Put(i, "CreatedAt", d) : i \in CreateItems(c), d \in Dates(t)}

\* the owner a related item belongs to
pkOfOwner(item) == item.userId.id

Call(op, item, pk, sk, r) ==
    [op |-> op, item |-> item, pk |-> pk, sk |-> sk, error |-> r.error, value |-> r.value]

(***************************************************************************)
(* Actions                                                                 *)
(***************************************************************************)
Init ==
    /\ schema \in ModelClasses
    /\ store = {}
    /\ now = 1
    /\ last = [op |-> "new", item |-> {}, pk |-> {}, sk |-> {}, error |-> "", value |-> {}]
    /\ signal = {}
    /\ related = << >>

Get ==
    \E pk \in PartitionKeys(schema), sk \in SortKeyArgs(schema) :
        LET r == get(schema, store, signal, pk, sk)
        IN  /\ last' = Call("get", {}, {pk}, sk, r)
            /\ store' = r.store
            /\ signal' = r.signal
            /\ UNCHANGED <<schema, now, related>>

Create ==
    \E item \in CreateItems(schema) :
        LET r == create(schema, store, signal, now, item)
        IN  /\ last' = Call("create", {item}, {}, {}, r)
            /\ store' = r.store
            /\ signal' = r.signal
            /\ UNCHANGED <<schema, now, related>>

Update ==
    \E item \in UpdateItems(schema, now) :
        LET r == update(schema, store, signal, now, item)
        IN  /\ last' = Call("update", {item}, {}, {}, r)
            /\ store' = r.store
            /\ signal' = r.signal
            /\ UNCHANGED <<schema, now, related>>

Delete ==
    \E pk \in PartitionKeys(schema), sk \in SortKeyArgs(schema) :
        LET r == delete(schema, store, signal, now, pk, sk)
        IN  /\ last' = Call("delete", {}, {pk}, sk, r)
            /\ store' = r.store
            /\ signal' = r.signal
            /\ UNCHANGED <<schema, now, related>>

\* time passes between two calls
Tick ==
    /\ now < MaxTime
    /\ now' = now + 1
    /\ UNCHANGED <<schema, store, last, signal, related>>

Next == Get \/ Create \/ Update \/ Delete \/ Tick

Spec == Init /\ [][Next]_vars

(***************************************************************************)
(* A User repository whose gets join the Profile and Post tables.          *)
(***************************************************************************)
JoinInit ==
    /\ schema = "User"
    /\ store = {}
    /\ now = 1
    /\ last = [op |-> "new", item |-> {}, pk |-> {}, sk |-> {}, error |-> "", value |-> {}]
    /\ signal = {}
    /\ related = [Profile |-> {}, Post |-> {}]

\* new Repository(cls).create(item) on the table of a related class
CreateRelated ==
    \E cls \in DOMAIN related :
        \E item \in {i \in CreateItems(cls) : cls = "Post" \/ pkOfOwner(i) = "u1"} :
            LET r == create(cls, related[cls], signal, now, item)
            IN  /\ related' = [related EXCEPT ![cls] = r.store]
                /\ last' = Call("create", {item}, {}, {}, r)
                /\ UNCHANGED <<schema, store, now, signal>>

GetWithJoins ==
    \E pk \in PartitionKeys(schema),
       joins \in {<<"profile">>, <<"posts">>, <<"profile", "posts">>} :
        LET r == getWithJoins(schema, store, related, signal, pk, {}, joins)
        IN  /\ last' = Put(Call("get", {}, {pk}, {}, r), "joins", joins)
            /\ store' = r.store
            /\ signal' = r.signal
            /\ UNCHANGED <<schema, now, related>>

JoinNext == Create \/ CreateRelated \/ GetWithJoins

JoinSpec == JoinInit /\ [][JoinNext]_vars

(***************************************************************************)
(* Properties                                                              *)
(***************************************************************************)
\* the key arguments a caller derives from an item
pkOf(c, item) == item[(CHOOSE m \in getPartitionKeyMeta(c) : TRUE).field]
skOf(c, item) == {item[m.field] : m \in getSortKeyMeta(c)}

\* the arguments name a complete primary key of the class
complete(c, pk, sk) == DOMAIN inputKeyOf(c, pk, sk) = hashKey(c) \cup rangeKey(c)

\* the records of table st under the key the arguments serialize to
stored(c, st, pk, sk) == {r \in st : keyOf(c, r) = inputKeyOf(c, pk, sk)}

\* the step is a call of op (a Tick leaves `last` alone and moves the clock)
Called(op) == now' = now /\ last'.op = op

\* C1: after create(item) has completed, get with the item's partition key
\* (and its sort key when the class declares one) resolves with an item
\* whose fields equal the fields passed to create and whose CreatedAt is
\* populated when the class declares it; the key may be a primitive or a
\* foreign-key object.
CreateThenGet ==
    (last.op = "create" /\ last.error = "") =>
        \A item \in last.item :
            LET g == get(schema, store, signal, pkOf(schema, item), skOf(schema, item))
            IN  /\ g.error = ""
                /\ \E v \in g.value :
                      /\ \A k \in DOMAIN item : k \in DOMAIN v /\ v[k] = item[k]
                      /\ "CreatedAt" \in KeysOf(schema) => "CreatedAt" \in DOMAIN v

\* a comment was created under a composite foreign-key object and a sort key
CreateThenGetWitness ==
    /\ schema = "Comment"
    /\ last.op = "create" /\ last.error = ""
    /\ \E item \in last.item :
          get(schema, store, signal, item.postId, {item.id}).value # {}

\* C2: get resolves with null, and does not reject, for every complete key
\* under which the table stores no item.
GetAbsentIsNull ==
    \A pk \in PartitionKeys(schema), sk \in SortKeyArgs(schema) :
        (complete(schema, pk, sk) /\ stored(schema, store, pk, sk) = {}) =>
            LET g == get(schema, store, signal, pk, sk)
            IN  g.error = "" /\ g.value = {}

\* get resolved with null for the key of the user whose delete was the last
\* change of the table
GetAbsentIsNullWitness ==
    /\ last.op = "get" /\ last.error = "" /\ last.value = {}
    /\ \E e \in signal : e.event = "delete" /\ last.pk = {e.entity.id}

\* C3: delete on a complete key under which no item is stored fails with
\* 'is not found for deletion', leaves the table as it was and emits nothing.
DeleteAbsentFails ==
    [][Called("delete") =>
        \A pk \in last'.pk :
            (complete(schema, pk, last'.sk) /\ stored(schema, store, pk, last'.sk) = {}) =>
                /\ last'.error = "is not found for deletion"
                /\ store' = store
                /\ signal' = signal]_vars

\* a delete failed on a table that holds an item and after another user's
\* delete was published
DeleteAbsentFailsWitness ==
    /\ last.op = "delete" /\ last.error = "is not found for deletion"
    /\ store # {}
    /\ \E e \in signal : e.event = "delete"

\* C4: after delete on a stored item has completed, get on that key resolves
\* with null and every item stored under another key is as it was.
DeleteRemovesOnlyTheKey ==
    [][(Called("delete") /\ last'.error = "") =>
        \A pk \in last'.pk :
            /\ get(schema, store', signal', pk, last'.sk).error = ""
            /\ get(schema, store', signal', pk, last'.sk).value = {}
            /\ store' = store \ stored(schema, store, pk, last'.sk)
            /\ Cardinality(stored(schema, store, pk, last'.sk)) = 1]_vars

\* a delete completed and left the item of another key in the table
DeleteRemovesOnlyTheKeyWitness ==
    last.op = "delete" /\ last.error = "" /\ store # {}

\* the primary keys under which table st holds an item
Keys(st) == {keyOf(schema, r) : r \in st}

\* the item of table st under the key of `item`, as get would return it
Previous(st, item) ==
    {transform(schema, r, "deserialize") :
        r \in stored(schema, st, pkOf(schema, item), skOf(schema, item))}

\* the fields transform leaves undefined when the item omits them
Coded(c) == {k \in KeysOf(c) : Meta(c).type[k] \in {"object", "array", "date"}}

\* C5: the keys present in the table change only through create, which adds
\* the key, and a delete that resolves, which removes it; get changes no
\* stored item and update never makes an absent key present.
PerKeyStateMachine ==
    [][/\ Called("get") => store' = store
       /\ Called("update") => Keys(store') = Keys(store)
       /\ Keys(store') # Keys(store) =>
            \/ Called("create") /\ Keys(store) \subseteq Keys(store')
            \/ Called("delete") /\ last'.error = "" /\ Keys(store') \subseteq Keys(store)]_vars

\* C6: an update that passes the CreatedAt (createdAt) of the stored item
\* through returns that CreatedAt and, the clock having moved on, an UpdatedAt
\* (updatedAt) greater than the stored one.
UpdateKeepsCreatedBumpsUpdated ==
    [][(Called("update") /\ last'.error = "") =>
        \A item \in last'.item, v \in last'.value :
          \A prev \in Previous(store, item) :
            \A pair \in {<<"CreatedAt", "UpdatedAt">>, <<"createdAt", "updatedAt">>} :
                (/\ pair[1] \in DOMAIN item /\ pair[1] \in DOMAIN prev
                 /\ item[pair[1]] = prev[pair[1]]
                 /\ pair[2] \in DOMAIN prev /\ prev[pair[2]].time < now) =>
                    /\ v[pair[1]] = prev[pair[1]]
                    /\ pair[2] \in DOMAIN v
                    /\ v[pair[2]].time > prev[pair[2]].time]_vars

\* C7 as stated: after update(item) has completed, get on the item's key
\* returns exactly the item's fields with UpdatedAt set to the update time, so
\* a stored field the item omits is gone.
UpdateOverwritesInFull ==
    [][(Called("update") /\ last'.error = "") =>
        \A item \in last'.item :
            get(schema, store', signal', pkOf(schema, item), skOf(schema, item)).value
                = {IF "UpdatedAt" \in KeysOf(schema)
                   THEN Put(item, "UpdatedAt", [time |-> now]) ELSE item}]_vars

\* C7, amended: after update(item) has completed, get on the item's key
\* returns the item's value for every field the item gives, UpdatedAt set to
\* the update time, and the stored value of every string or number field the
\* item omits; an omitted object, array or date field is no longer stored,
\* and an update that omits a required one (CreatedAt) is rejected and leaves
\* the table as it was.
UpdateMerges ==
    [][Called("update") =>
        \A item \in last'.item :
            IF (Coded(schema) \cap required(schema)) \ DOMAIN item # {}
            THEN last'.error = "ValidationError" /\ store' = store
            ELSE /\ last'.error = ""
                 /\ \E v \in get(schema, store', signal',
                                 pkOf(schema, item), skOf(schema, item)).value :
                       /\ \A k \in DOMAIN item \ {"UpdatedAt"} : k \in DOMAIN v /\ v[k] = item[k]
                       /\ "UpdatedAt" \in KeysOf(schema) => v["UpdatedAt"] = [time |-> now]
                       /\ \A prev \in Previous(store, item) :
                             \A k \in DOMAIN prev \ (DOMAIN item \cup {"UpdatedAt"}) :
                                 IF k \in Coded(schema)
                                 THEN k \notin DOMAIN v
                                 ELSE k \in DOMAIN v /\ v[k] = prev[k]]_vars

\* an update that gave no bio completed on a profile stored with a bio and
\* settings: the bio is still stored, the settings are not
UpdateMergesWitness ==
    /\ schema = "Profile"
    /\ last.op = "update" /\ last.error = ""
    /\ \E item \in last.item : "bio" \notin DOMAIN item
    /\ \E r \in store : "bio" \in DOMAIN r /\ "settings" \notin DOMAIN r

\* C8 as stated: create on a key under which an item is stored succeeds and
\* the stored item becomes the new one.
CreateLastWriterWins ==
    [][Called("create") =>
        \A item \in last'.item :
            Previous(store, item) # {} =>
                /\ last'.error = ""
                /\ Previous(store', item) = last'.value]_vars

\* C8, amended: create reads nothing before it writes, and its write is
\* conditional: on a key under which an item is stored it is rejected, and
\* the table and the signal stay as they were.
CreateOnStoredKeyRejected ==
    [][Called("create") =>
        \A item \in last'.item :
            Previous(store, item) # {} =>
                /\ last'.error \in {"ConditionalCheckFailedException", "ValidationError"}
                /\ store' = store
                /\ signal' = signal]_vars

\* a create was rejected by the store's condition
CreateOnStoredKeyRejectedWitness ==
    last.op = "create" /\ last.error = "ConditionalCheckFailedException"

\* C9: create on a fresh key resolves with the declared timestamp fields, in
\* either casing, set to the current time on the returned and on the stored
\* item, and adds no timestamp field the class does not declare.
CreateSetsTimestamps ==
    [][Called("create") =>
        \A item \in last'.item :
            Previous(store, item) = {} =>
                /\ last'.error = ""
                /\ Previous(store', item) # {}
                /\ \A v \in last'.value \cup Previous(store', item) :
                      \A k \in {"CreatedAt", "UpdatedAt", "createdAt", "updatedAt"} :
                          IF k \in KeysOf(schema)
                          THEN k \in DOMAIN v /\ v[k] = [time |-> now]
                          ELSE k \notin DOMAIN v]_vars

\* C10: on a class that declares a sort key, get and delete called with the
\* partition key alone fail with 'The number of conditions on the keys is
\* invalid', whatever the table holds, and delete removes nothing.
MissingSortKeyFails ==
    rangeKey(schema) # {} =>
        \A pk \in PartitionKeys(schema) :
            LET g == get(schema, store, signal, pk, {})
                d == delete(schema, store, signal, now, pk, {})
            IN  /\ g.error = "The number of conditions on the keys is invalid"
                /\ g.value = {}
                /\ d.error = "The number of conditions on the keys is invalid"
                /\ d.store = store
                /\ d.signal = signal

\* delete with the partition key alone failed although the table holds an
\* item under that partition key
MissingSortKeyFailsWitness ==
    /\ last.op = "delete" /\ last.sk = {}
    /\ last.error = "The number of conditions on the keys is invalid"
    /\ \E pk \in last.pk, r \in store :
          Restrict(r, hashKey(schema)) = inputKeyOf(schema, pk, {})

(***************************************************************************)
(* A Post repository that is queried by partition, by sort key condition   *)
(* and page by page.                                                       *)
(***************************************************************************)
\* the sort key conditions callers pass
Conditions ==
    [eq : {"post-2"}] \cup [gt : {"post-1", "post-2"}] \cup [ge : {"post-2"}]
    \cup [lt : {"post-3"}] \cup [le : {"post-2"}]
    \cup [between : {<<"post-1", "post-2">>, <<"post-2", "post-4">>}]

\* the page sizes callers pass
Limits == 1..(DefaultLimit - 1)

\* a query call and its awaited outcome
QueryCall(pk, cond, options, r) ==
    [op |-> "query", pk |-> {pk}, sk |-> cond, limit |-> options.limit,
     startAt |-> options.lastKey, error |-> r.error, value |-> r.items,
     count |-> r.count, lastKey |-> r.lastKey]

QueryInit ==
    /\ schema = "Post"
    /\ store = {}
    /\ now = 1
    /\ last = [op |-> "new", item |-> {}, pk |-> {}, sk |-> {}, error |-> "", value |-> {}]
    /\ signal = {}
    /\ related = << >>

\* query(pk, condition)
QueryCondition ==
    \E cnd \in Conditions :
        LET pk == [id |-> "u1"]
            r == query(schema, store, pk, {cnd}, NoOptions)
        IN  /\ last' = QueryCall(pk, {cnd}, NoOptions, r)
            /\ UNCHANGED <<schema, store, now, signal, related>>

\* query(pk, undefined, {limit, lastKey}): the first page, or the page after
\* the one the last query returned
QueryPage ==
    \E limit \in {{}} \cup {{n} : n \in Limits},
       lastKey \in {{}} \cup {IF last.op = "query" THEN last.lastKey ELSE {}} :
        LET pk == [id |-> "u1"]
            options == [index |-> {}, limit |-> limit, lastKey |-> lastKey]
            r == query(schema, store, pk, {}, options)
        IN  /\ last' = QueryCall(pk, {}, options, r)
            /\ UNCHANGED <<schema, store, now, signal, related>>

GetWithUniqueHashKey ==
    \E pk \in PartitionKeys(schema) :
        LET r == getWithUniqueHashKey(schema, store, pk)
        IN  /\ last' = [op |-> "getWithUniqueHashKey", pk |-> {pk},
                        error |-> r.error, value |-> r.value]
            /\ UNCHANGED <<schema, store, now, signal, related>>

QueryNext == Create \/ QueryCondition \/ QueryPage \/ GetWithUniqueHashKey

QuerySpec == QueryInit /\ [][QueryNext]_vars

(***************************************************************************)
(* The value codec applied to entity instances, and create as its caller.  *)
(***************************************************************************)
CodecClasses == {"User", "Profile", "Comment"}

\* the dates of entity instances: before, at and after the epoch
CodecDates == {[time |-> n] : n \in (0 - 1)..MaxTime}

\* the records of S with any of the fields `optional` left out
Optionally(S, optional) ==
    {Restrict(e, DOMAIN e \ omit) : e \in S, omit \in SUBSET optional}

\* entity instances that conform to the schema of a class
Entities(c) ==
    CASE c = "User" ->
            Optionally([id : {"u1"}, email : {"a@b.com"}, name : {"n"}, age : {30},
                        isActive : {TRUE}, metadata : {[role |-> "admin"]},
                        tags : {<<"a", "b">>},
                        CreatedAt : CodecDates, UpdatedAt : CodecDates],
                       Meta(c).optional)
      [] c = "Profile" ->
            Optionally([userId : {[id |-> "u1"]}, bio : {"bio"},
                        settings : {[theme |-> "dark"]},
                        CreatedAt : CodecDates, UpdatedAt : CodecDates],
                       {"settings", "UpdatedAt"})
      [] c = "Comment" ->
            Optionally([postId : PartitionKeys(c), id : SortKeys(c),
                        authorId : {[id |-> "au"]}, content : {"hi"},
                        CreatedAt : CodecDates, UpdatedAt : CodecDates],
                       Meta(c).optional)

CodecInit ==
    /\ schema \in CodecClasses
    /\ store = {}
    /\ now = 1
    /\ last = [op |-> "new", item |-> {}, pk |-> {}, sk |-> {}, error |-> "", value |-> {}]
    /\ signal = {}
    /\ related = << >>

\* transform(e, 'serialize') on an entity instance
Serialize ==
    \E e \in Entities(schema) :
        /\ last' = [op |-> "serialize", entity |-> {e}, item |-> {e},
                    arg |-> {transformInPlace(schema, e, "serialize")},
                    error |-> "", value |-> {transform(schema, e, "serialize")}]
        /\ UNCHANGED <<schema, store, now, signal, related>>

\* transform(record, 'deserialize') on the record the last serialize returned
Deserialize ==
    /\ last.op = "serialize"
    /\ \E record \in last.value :
           last' = [op |-> "deserialize", entity |-> last.entity, item |-> {record},
                    arg |-> {transformInPlace(schema, record, "deserialize")},
                    error |-> "", value |-> {transform(schema, record, "deserialize")}]
    /\ UNCHANGED <<schema, store, now, signal, related>>

\* create(item), with the caller's item object as the call leaves it
CreateItem ==
    \E item \in CreateItems(schema) :
        LET r == create(schema, store, signal, now, item)
        IN  /\ last' = Put(Call("create", {item}, {}, {}, r), "arg",
                           {itemAfterCreate(schema, store, now, item)})
            /\ store' = r.store
            /\ signal' = r.signal
            /\ UNCHANGED <<schema, now, related>>

CodecNext == Serialize \/ Deserialize \/ CreateItem

CodecSpec == CodecInit /\ [][CodecNext]_vars

(***************************************************************************)
(* Repositories of classes with a string key, an object key, a sort key    *)
(* and no key at all, called with keys of any kind and over indexes that   *)
(* may not be declared.                                                    *)
(***************************************************************************)
KeyClasses == {"TestUser", "Profile", "Tag", "Unkeyed"}

\* the index option of query and scan: none, or a name no class declares
IndexArgs == {{}, {"missingIndex"}}

\* a get, update, delete or query call with its outcome, the index it named
\* and whether the store was called
KeyCall(op, item, pk, sk, index, r, issued) ==
    [op |-> op, item |-> item, pk |-> pk, sk |-> sk, index |-> index,
     error |-> r.error, value |-> r.value, issued |-> issued]

KeyInit ==
    /\ schema \in KeyClasses
    /\ store = {}
    /\ now = 1
    /\ last = [op |-> "new", item |-> {}, pk |-> {}, sk |-> {}, index |-> {},
               error |-> construct(schema).error, value |-> {}, issued |-> FALSE]
    /\ signal = {}
    /\ related = << >>

KeyGet ==
    \E pk \in PartitionKeys(schema), sk \in SortKeyArgs(schema) :
        LET r == get(schema, store, signal, pk, sk)
        IN  /\ last' = KeyCall("get", {}, {pk}, sk, {}, r, getIssued(schema, pk))
            /\ UNCHANGED <<schema, store, now, signal, related>>

\* get(42): a number where the key is declared a string or a foreign key
KeyGetNumber ==
    \E pk \in NumberKeys :
        LET r == get(schema, store, signal, pk, {})
        IN  /\ schema \in {"TestUser", "Unkeyed"}
            /\ last' = KeyCall("get", {}, {pk}, {}, {}, r, getIssued(schema, pk))
            /\ UNCHANGED <<schema, store, now, signal, related>>

KeyCreate ==
    \E item \in CreateItems(schema) :
        LET r == create(schema, store, signal, now, item)
        IN  /\ last' = KeyCall("create", {item}, {}, {}, {}, r,
                               ~transformThrows(schema, item, "serialize"))
            /\ store' = r.store
            /\ signal' = r.signal
            /\ UNCHANGED <<schema, now, related>>

KeyUpdate ==
    \E item \in CreateItems(schema) :
        LET r == update(schema, store, signal, now, item)
        IN  /\ last' = KeyCall("update", {item}, {}, {}, {}, r, updateIssued(schema, item))
            /\ store' = r.store
            /\ signal' = r.signal
            /\ UNCHANGED <<schema, now, related>>

KeyDelete ==
    \E pk \in PartitionKeys(schema), sk \in SortKeyArgs(schema) :
        LET r == delete(schema, store, signal, now, pk, sk)
        IN  /\ last' = KeyCall("delete", {}, {pk}, sk, {}, r, deleteIssued(schema))
            /\ store' = r.store
            /\ signal' = r.signal
            /\ UNCHANGED <<schema, now, related>>

KeyQuery ==
    \E pk \in PartitionKeys(schema), index \in IndexArgs :
        LET options == [index |-> index, limit |-> {}, lastKey |-> {}]
            r == query(schema, store, pk, {}, options)
        IN  /\ last' = [op |-> "query", item |-> {}, pk |-> {pk}, sk |-> {},
                        index |-> index, error |-> r.error,
                        value |-> Range(r.items),
                        issued |-> queryIssued(schema, {}, options)]
            /\ UNCHANGED <<schema, store, now, signal, related>>

KeyScan ==
    \E partitionKey \in {{}} \cup {{[eq |-> pk]} : pk \in PartitionKeys(schema)},
       sortKey \in {{}} \cup {{[eq |-> sk]} : sk \in SortKeys(schema)},
       index \in IndexArgs :
        \E r \in scan(schema, store, [partitionKey |-> partitionKey, sortKey |-> sortKey],
                      [index |-> index, limit |-> {}, lastKey |-> {}]) :
            /\ last' = [op |-> "scan", item |-> {}, pk |-> {}, sk |-> {},
                        index |-> index, error |-> r.error, value |-> r.items,
                        issued |-> r.issued]
            /\ UNCHANGED <<schema, store, now, signal, related>>

KeyNext ==
    KeyGet \/ KeyGetNumber \/ KeyCreate \/ KeyUpdate \/ KeyDelete \/ KeyQuery \/ KeyScan

KeySpec == KeyInit /\ [][KeyNext]_vars

(***************************************************************************)
(* A Revision repository: the sort key is a number, 0 included.            *)
(***************************************************************************)
RevisionInit ==
    /\ schema = "Revision"
    /\ store = {}
    /\ now = 1
    /\ last = [op |-> "new", item |-> {}, pk |-> {}, sk |-> {}, error |-> "", value |-> {}]
    /\ signal = {}
    /\ related = << >>

RevisionSpec == RevisionInit /\ [][Next]_vars

(***************************************************************************)
(* InMemoryRepository: get, create and update are overridden and work on   *)
(* mockedDb; every other operation is the one of Repository and works on   *)
(* the dynamoose model of the class.  The same calls are made on an        *)
(* InMemoryRepository (`related` holds its mockedDb) and on a Repository   *)
(* over a table (`store`).                                                 *)
(***************************************************************************)
\* InMemoryRepository.getKey(t)
getKey(c, t) ==
    <<pkOf(c, t), {t[m.field] : m \in getSortKeyMeta(c)}>>

\* InMemoryRepository.constructKey(hashKeyValue, sortKeyValue)
constructKey(hashKeyValue, sortKeyValue) ==
    IF truthy(sortKeyValue) THEN <<hashKeyValue, sortKeyValue>> ELSE <<hashKeyValue>>

\* the table behind this.model of an InMemoryRepository: nothing an
\* InMemoryRepository does writes to it
ModelTable == {}

MemOutcome(e, v, db) == [error |-> e, value |-> v, db |-> db]

\* InMemoryRepository.get(hashKeyValue, sortKeyValue)
memGet(db, hashKeyValue, sortKeyValue) ==
    LET key == constructKey(hashKeyValue, sortKeyValue)
    IN  MemOutcome("", IF key \in DOMAIN db THEN {db[key]} ELSE {}, db)

\* InMemoryRepository.create(item)
memCreate(c, db, item) ==
    LET key == constructKey(getKey(c, item)[1], getKey(c, item)[2])
    IN  IF key \in DOMAIN db THEN MemOutcome("Already exist", {}, db)
        ELSE MemOutcome("", {item}, Put(db, key, item))

\* InMemoryRepository.update(item)
memUpdate(c, db, item) ==
    LET key == constructKey(getKey(c, item)[1], getKey(c, item)[2])
    IN  IF key \notin DOMAIN db THEN MemOutcome("Does not exist", {}, db)
        ELSE MemOutcome("", {item}, Put(db, key, item))

\* the outcome r of an operation inherited from Repository, which leaves
\* mockedDb alone
inherited(r, value, db) == MemOutcome(r.error, value, db)

\* delete, inherited from Repository
memDelete(c, db, sig, time, pk, sk) ==
    inherited(delete(c, ModelTable, sig, time, pk, sk), {}, db)

\* query, inherited from Repository
memQuery(c, db, pk) ==
    LET items(r) == inherited(r, Range(r.items), db)
    IN  items(query(c, ModelTable, pk, {}, NoOptions))

\* scan, inherited from Repository
memScan(c, db) ==
    {inherited(r, r.items, db) :
        r \in scan(c, ModelTable, [partitionKey |-> {}, sortKey |-> {}], NoOptions)}

\* a call made on both repositories, with the two outcomes
BothCall(op, mem, real) ==
    [op |-> op, item |-> {}, pk |-> {}, sk |-> {}, error |-> mem.error, value |-> mem.value,
     realError |-> real.error, realValue |-> real.value]

\* a call made on both repositories: what it leaves behind
Both(op, mem, real, table) ==
    /\ last' = BothCall(op, mem, real)
    /\ related' = mem.db
    /\ store' = table
    /\ UNCHANGED <<schema, now, signal>>

\* the items of a query result as a set
itemsOf(r) == [error |-> r.error, value |-> Range(r.items), store |-> store]

MemInit ==
    /\ schema = "Tag"
    /\ store = {}
    /\ now = 1
    /\ last = [op |-> "new", item |-> {}, pk |-> {}, sk |-> {}, error |-> "", value |-> {}]
    /\ signal = {}
    /\ related = << >>

MemCreate ==
    \E item \in CreateItems(schema) :
        \E real \in {create(schema, store, signal, now, item)} :
            Both("create", memCreate(schema, related, item), real, real.store)

MemGet ==
    \E pk \in PartitionKeys(schema), sk \in SortKeyArgs(schema) :
        Both("get", memGet(related, pk, sk), get(schema, store, signal, pk, sk), store)

MemUpdate ==
    \E item \in CreateItems(schema) :
        \E real \in {update(schema, store, signal, now, item)} :
            Both("update", memUpdate(schema, related, item), real, real.store)

MemDelete ==
    \E pk \in PartitionKeys(schema), sk \in SortKeyArgs(schema) :
        \E real \in {delete(schema, store, signal, now, pk, sk)} :
            Both("delete", memDelete(schema, related, signal, now, pk, sk), real, real.store)

MemQuery ==
    \E pk \in PartitionKeys(schema) :
        Both("query", memQuery(schema, related, pk),
             itemsOf(query(schema, store, pk, {}, NoOptions)), store)

MemScan ==
    \E mem \in memScan(schema, related),
       r \in scan(schema, store, [partitionKey |-> {}, sortKey |-> {}], NoOptions) :
        Both("scan", mem, [error |-> r.error, value |-> r.items], store)

MemNext == MemCreate \/ MemGet \/ MemUpdate \/ MemDelete \/ MemQuery \/ MemScan

MemSpec == MemInit /\ [][MemNext]_vars

(***************************************************************************)
(* Two callers of one TestUser repository whose update and delete calls on *)
(* the same key interleave at their awaits.  `related` holds the call each *)
(* caller has in flight.                                                   *)
(***************************************************************************)
Callers == {1, 2}

Idle == [pc |-> "idle", op |-> "none"]

\* the items the callers update: user u1 under two names
RaceItems ==
    {Put(i, "name", n) : i \in {x \in UpdateItems("TestUser", 1) : x.id = "u1"},
                         n \in {"n", "m"}}

\* a write that checks that the item is still as the call read it
raceWriteChecked(c, st, sig, time, call) ==
    IF {r \in st : keyOf(c, r) = call.key} # call.got
    THEN Rejected("ConditionalCheckFailedException", st, sig)
    ELSE IF call.op = "update"
    THEN update(c, st, sig, time, call.item)
    ELSE delete(c, st, sig, time, call.pk, {})

\* update and delete up to `await this.model.get(inputKey)`: the call in
\* flight, with the key it built
raceIssue(c, op, item, pk) ==
    [pc |-> "read", op |-> op, item |-> item, pk |-> pk,
     key |-> IF op = "update" THEN updateKeyOf(c, item) ELSE inputKeyOf(c, pk, {}),
     got |-> {}]

\* the answer of model.get arrives: a delete of a missing item throws, any
\* other call goes on to its write
raceRead(c, st, sig, call) ==
    LET g == modelGet(c, st, call.key)
    IN  IF g.error # "" THEN Rejected(g.error, st, sig)
        ELSE IF call.op = "delete" /\ g.item = {}
        THEN Rejected("is not found for deletion", st, sig)
        ELSE [error |-> "", value |-> g.item, store |-> st, signal |-> sig]

\* the rest of the call from its write on: model.update(item) with the
\* previous item read before, or toBeDeleted.delete()
raceWrite(c, st, sig, time, call) ==
    IF call.op = "update"
    THEN LET i1 == IF "UpdatedAt" \in KeysOf(c)
                   THEN Put(call.item, "UpdatedAt", [time |-> time]) ELSE call.item
             ser == transform(c, i1, "serialize")
             w == modelUpdate(c, st, ser, undefinedKeys(c, i1, "serialize"))
             result == transform(c, ser, "deserialize")
         IN  IF transformThrows(c, i1, "serialize") THEN Rejected("TypeError", st, sig)
             ELSE IF w.error # "" THEN Rejected(w.error, st, sig)
             ELSE [error |-> "", value |-> {result}, store |-> w.store,
                   signal |-> executeTriggers(c, sig, "update", result,
                                              transformOrNull(c, call.got, "deserialize"),
                                              time)]
    ELSE LET toBeDeleted == CHOOSE r \in call.got : TRUE
             previousItem == transform(c, toBeDeleted, "deserialize")
         IN  [error |-> "", value |-> {}, store |-> itemDelete(c, st, toBeDeleted),
              signal |-> executeTriggers(c, sig, "delete", previousItem, {previousItem},
                                         time)]

\* a call that has ended, as its caller sees it; raced tells that the item
\* was written between the read and the write of the call
RaceCall(p, call, r, raced) ==
    [op |-> call.op, item |-> {call.item}, pk |-> {call.pk}, sk |-> {}, error |-> r.error,
     value |-> r.value, caller |-> p, key |-> call.key, raced |-> raced]

RaceInit ==
    /\ schema = "TestUser"
    /\ store = {}
    /\ now = 1
    /\ last = [op |-> "new", item |-> {}, pk |-> {}, sk |-> {}, error |-> "", value |-> {}]
    /\ signal = {}
    /\ related = [p \in Callers |-> Idle]

\* a caller calls update(item)
IssueUpdate ==
    \E p \in Callers, item \in RaceItems :
        /\ related[p].pc = "idle"
        /\ related' = [related EXCEPT ![p] = raceIssue(schema, "update", item, "u1")]
        /\ UNCHANGED <<schema, store, now, last, signal>>

\* a caller calls delete('u1') while no other delete is in flight
IssueDelete ==
    \E p \in Callers :
        /\ related[p].pc = "idle"
        /\ \A q \in Callers : related[q].op # "delete"
        /\ related' = [related EXCEPT ![p] = raceIssue(schema, "delete", [id |-> "u1"], "u1")]
        /\ UNCHANGED <<schema, store, now, last, signal>>

\* the read of a call in flight is answered
AnswerRead ==
    \E p \in Callers :
        /\ related[p].pc = "read"
        /\ LET r == raceRead(schema, store, signal, related[p])
           IN  IF r.error # ""
               THEN /\ related' = [related EXCEPT ![p] = Idle]
                    /\ last' = RaceCall(p, related[p], r, FALSE)
               ELSE /\ related' = [related EXCEPT ![p].pc = "write", ![p].got = r.value]
                    /\ last' = last
        /\ UNCHANGED <<schema, store, now, signal>>

\* the write of a call in flight is done and the call returns
AnswerWrite ==
    \E p \in Callers :
        /\ related[p].pc = "write"
        /\ LET r == raceWrite(schema, store, signal, now, related[p])
           IN  /\ store' = r.store
               /\ signal' = r.signal
               /\ last' = RaceCall(p, related[p], r,
                                   {x \in store : keyOf(schema, x) = related[p].key}
                                       # related[p].got)
        /\ related' = [related EXCEPT ![p] = Idle]
        /\ UNCHANGED <<schema, now>>

RaceNext == IssueUpdate \/ IssueDelete \/ AnswerRead \/ AnswerWrite

RaceSpec == RaceInit /\ [][RaceNext]_vars

(***************************************************************************)
(* Subscriptions: services whose handlers run when the signal of TestUser  *)
(* changes.  `related` holds SubscriptionManager.activeSubscriptions; a    *)
(* subscription is attached while its effect listens to the signal object  *)
(* that EntitySignalStore holds for the class.                             *)
(***************************************************************************)
Services == {"TestUserService", "TestNotificationService"}

\* the events the handlers of a service class subscribe to
SubscribedEvents(service) ==
    CASE service = "TestUserService" -> {"create", "update", "delete", "all"}
      [] service = "TestNotificationService" -> {"update"}

\* what a handler does when it is called: it returns, it throws, or (an async
\* handler) it returns a promise that rejects
HandlerOutcomes == {"returns", "throws", "rejects"}

\* the signal of the class the services subscribe to
userSignal == IF schema = "TestUser" THEN signal ELSE {}

\* the effect of a subscription runs on the signal value v: it calls the
\* handler if v is a change event of the subscribed kind
effectCalls(event, v) == \E changeEvent \in v : event = "all" \/ changeEvent.event = event

\* an effect whose callback lets the error of its handler escape
effectErrorUncaught(outcome) == IF outcome = "throws" THEN "Trigger error" ELSE ""

\* what escapes from the callback of an effect whose handler ends with
\* `outcome`: a thrown error is caught and logged, a promise is dropped
effectError(outcome) == ""

\* a signal that runs every effect twice when it is set
notifyTwice(active, v) ==
    [a \in {x \in active : x.attached /\ effectCalls(x.event, v)} |-> 2]

\* entitySignal.value = v: every attached effect runs once; the number of
\* calls of each handler
notify(active, v) ==
    [a \in {x \in active : x.attached /\ effectCalls(x.event, v)} |-> 1]

\* the outcome r of a repository call, seen with the subscribers: the
\* handlers called by the emit of a successful call on a publishing class,
\* and the error that comes out of the call
published(c, r, active, outcome) ==
    LET emitted == r.error = "" /\ Meta(c).publishChanges
        invoked == IF emitted THEN notify(active, r.signal) ELSE << >>
        error == IF DOMAIN invoked # {} /\ effectError(outcome) # ""
                 THEN effectError(outcome) ELSE r.error
    IN  [error |-> error, value |-> IF error = "" THEN r.value ELSE {},
         store |-> r.store, signal |-> r.signal, invoked |-> invoked]

PublishedCall(op, item, pk, sk, r, outcome) ==
    [op |-> op, item |-> item, pk |-> pk, sk |-> sk, error |-> r.error, value |-> r.value,
     invoked |-> r.invoked, outcome |-> outcome]

SubscriberCall(op, service, invoked, outcome) ==
    [op |-> op, item |-> {}, pk |-> {service}, sk |-> {}, error |-> "", value |-> {},
     invoked |-> invoked, outcome |-> outcome]

TriggerInit ==
    /\ schema \in {"TestUser", "Tag"}
    /\ store = {}
    /\ now = 1
    /\ last = [op |-> "new", item |-> {}, pk |-> {}, sk |-> {}, error |-> "", value |-> {}]
    /\ signal = {}
    /\ related = {}

PublishCreate ==
    \E item \in CreateItems(schema), outcome \in HandlerOutcomes :
        LET r == published(schema, create(schema, store, signal, now, item), related, outcome)
        IN  /\ last' = PublishedCall("create", {item}, {}, {}, r, outcome)
            /\ store' = r.store
            /\ signal' = r.signal
            /\ UNCHANGED <<schema, now, related>>

PublishUpdate ==
    \E item \in UpdateItems(schema, now), outcome \in HandlerOutcomes :
        LET r == published(schema, update(schema, store, signal, now, item), related, outcome)
        IN  /\ last' = PublishedCall("update", {item}, {}, {}, r, outcome)
            /\ store' = r.store
            /\ signal' = r.signal
            /\ UNCHANGED <<schema, now, related>>

PublishDelete ==
    \E pk \in PartitionKeys(schema), sk \in SortKeyArgs(schema), outcome \in HandlerOutcomes :
        LET r == published(schema, delete(schema, store, signal, now, pk, sk), related, outcome)
        IN  /\ last' = PublishedCall("delete", {}, {pk}, sk, r, outcome)
            /\ store' = r.store
            /\ signal' = r.signal
            /\ UNCHANGED <<schema, now, related>>

\* SubscriptionManager.initialize(serviceInstance): one effect per
\* subscription of the class, and each effect runs at once on the value the
\* signal holds
Initialize ==
    \E service \in Services, outcome \in HandlerOutcomes :
        LET new == {[service |-> service, event |-> e, attached |-> TRUE] :
                       e \in SubscribedEvents(service)}
        IN  /\ \A a \in related : a.service # service
            /\ related' = related \cup new
            /\ last' = SubscriberCall("initialize", service, notify(new, userSignal), outcome)
            /\ UNCHANGED <<schema, store, now, signal>>

\* SubscriptionManager.cleanupService(serviceInstance)
CleanupService ==
    \E service \in Services :
        /\ related' = {a \in related : a.service # service}
        /\ last' = SubscriberCall("cleanupService", service, << >>, "returns")
        /\ UNCHANGED <<schema, store, now, signal>>

\* SubscriptionManager.cleanupAll()
CleanupAll ==
    /\ related' = {}
    /\ last' = SubscriberCall("cleanupAll", "", << >>, "returns")
    /\ UNCHANGED <<schema, store, now, signal>>

\* EntitySignalStore.clearAll(): every signal is set to null and dropped from
\* the store of signals; the effects keep listening to the dropped signals
ClearAll ==
    /\ signal' = {}
    /\ related' = {[a EXCEPT !.attached = FALSE] : a \in related}
    /\ last' = SubscriberCall("clearAll", "", << >>, "returns")
    /\ UNCHANGED <<schema, store, now>>

TriggerNext ==
    \/ PublishCreate \/ PublishUpdate \/ PublishDelete
    \/ Initialize \/ CleanupService \/ CleanupAll \/ ClearAll

TriggerSpec == TriggerInit /\ [][TriggerNext]_vars

(***************************************************************************)
(* Secondary index names: the decorators that name an index, and the key   *)
(* resolver that looks a name up.                                          *)
(***************************************************************************)
\* an index name that leaves out the dash between the two key names
constructGSInameUndashed(type, hashKeyName, sortKey) ==
    hashKeyName \o (IF sortKey # {} THEN CHOOSE x \in sortKey : TRUE ELSE "")
            \o (IF type = "global" THEN "GlobalIndex" ELSE "LocalIndex")

\* constructGSIname(type, hashKey, sortKey?); sortKey is {} when not given
constructGSIname(type, hashKeyName, sortKey) ==
    hashKeyName \o (IF sortKey # {} THEN "-" ELSE "")
            \o (IF sortKey # {} THEN CHOOSE x \in sortKey : TRUE ELSE "")
            \o (IF type = "global" THEN "GlobalIndex" ELSE "LocalIndex")

\* Repository.getDefaultIndexName(type, partitionKey, sortKey?)
getDefaultIndexName(type, partitionKey, sortKey) ==
    partitionKey \o (IF sortKey # {} THEN "-" ELSE "")
                 \o (IF sortKey # {} THEN CHOOSE x \in sortKey : TRUE ELSE "")
                 \o (IF type = "global" THEN "GlobalIndex" ELSE "LocalIndex")

\* the metadata a decorator defines on a property: the 'index' entry and the
\* name n of the entry 'partitionKey(n)'
IndexMetadata(decorator, propertyKey, type, name, sortKey, indexName) ==
    [decorator |-> decorator, field |-> propertyKey,
     index |-> [type |-> type, name |-> name, sortKey |-> sortKey],
     partitionKeyOf |-> indexName]

\* @Index(gsiOptions) on propertyKey; each option is {} when not given
Index(gsiOptions, propertyKey) ==
    LET type == IF gsiOptions.type = {} THEN "global" ELSE CHOOSE t \in gsiOptions.type : TRUE
        indexName == IF gsiOptions.name # {} THEN CHOOSE n \in gsiOptions.name : TRUE
                     ELSE constructGSIname(type, propertyKey, gsiOptions.sortKey)
    IN  IndexMetadata("Index", propertyKey, type, gsiOptions.name, gsiOptions.sortKey, indexName)

\* @AmplifyGsi(options) on propertyKey
AmplifyGsi(options, propertyKey) ==
    LET indexName == IF options.name # {} THEN CHOOSE n \in options.name : TRUE
                     ELSE constructGSIname("global", propertyKey, options.sortKey)
    IN  IndexMetadata("AmplifyGsi", propertyKey, "global", options.name, options.sortKey, indexName)

\* @BelongsTo(serializer, deserializer, 'index') on propertyKey
BelongsToIndex(propertyKey) ==
    LET defaultIndexName == constructGSIname("global", propertyKey, {})
    IN  IndexMetadata("BelongsTo", propertyKey, "global", {defaultIndexName}, {}, defaultIndexName)

\* the 'keys' of the decorated class, in declaration order
IndexedKeys == <<"status", "publishedAt", "createdBy">>

\* the properties that get an index decorator, and the sort keys they name
IndexedFields == {"status", "createdBy"}
IndexSortKeys == {{}, {"publishedAt"}}
IndexNames == {{}, {"StatusIndex"}}

\* getPartitionKeyMeta(secondaryIndexName) over the metadata M: the first key
\* that carries 'partitionKey(secondaryIndexName)'; {} when the method throws
resolveIndex(M, secondaryIndexName) ==
    LET hits == {i \in DOMAIN IndexedKeys :
                    \E m \in M : m.field = IndexedKeys[i] /\ m.partitionKeyOf = secondaryIndexName}
    IN  {IndexedKeys[i] : i \in {j \in hits : \A k \in hits : j <= k}}

\* a class is being declared: `related` holds the index metadata defined so far
IndexInit ==
    /\ schema = "Post"
    /\ store = {}
    /\ now = 1
    /\ last = [op |-> "new", item |-> {}, pk |-> {}, sk |-> {}, error |-> "", value |-> {}]
    /\ signal = {}
    /\ related = {}

\* the metadata m is defined on a property that has no index decorator yet
Decorate(m) ==
    /\ \A d \in related : d.field # m.field
    /\ related' = related \cup {m}
    /\ last' = [op |-> "decorate", item |-> {m}, pk |-> {}, sk |-> {}, error |-> "",
                value |-> {}]
    /\ UNCHANGED <<schema, store, now, signal>>

DecorateIndex ==
    \E f \in IndexedFields, type \in {{}, {"global"}, {"local"}}, name \in IndexNames,
       indexSortKey \in IndexSortKeys :
        Decorate(Index([type |-> type, name |-> name, sortKey |-> indexSortKey], f))

DecorateAmplifyGsi ==
    \E f \in IndexedFields, name \in IndexNames, indexSortKey \in IndexSortKeys :
        Decorate(AmplifyGsi([name |-> name, sortKey |-> indexSortKey], f))

DecorateBelongsTo == \E f \in IndexedFields : Decorate(BelongsToIndex(f))

\* getPartitionKeyMeta(getDefaultIndexName(type, p, s))
ResolveDefaultName ==
    \E type \in {"global", "local"}, p \in IndexedFields, indexSortKey \in IndexSortKeys :
        LET name == getDefaultIndexName(type, p, indexSortKey)
            found == resolveIndex(related, name)
        IN  /\ last' = [op |-> "getPartitionKeyMeta", item |-> {}, pk |-> {name}, sk |-> {},
                        error |-> IF found = {}
                                  THEN "No field annotated with @PartitionKey found."
                                  ELSE "",
                        value |-> found, type |-> type, p |-> p, sortKey |-> indexSortKey]
            /\ UNCHANGED <<schema, store, now, signal, related>>

IndexNext == DecorateIndex \/ DecorateAmplifyGsi \/ DecorateBelongsTo \/ ResolveDefaultName

IndexSpec == IndexInit /\ [][IndexNext]_vars

(***************************************************************************)
(* A Workflow repository whose gets join the File table.                   *)
(***************************************************************************)
RelationInit ==
    /\ schema = "Workflow"
    /\ store = {}
    /\ now = 1
    /\ last = [op |-> "new", item |-> {}, pk |-> {}, sk |-> {}, error |-> "", value |-> {}]
    /\ signal = {}
    /\ related = [File |-> {}]

\* new Repository(File).create(item)
CreateFile ==
    \E item \in CreateItems("File") :
        LET r == create("File", related.File, signal, now, item)
        IN  /\ related' = [related EXCEPT !.File = r.store]
            /\ last' = Call("create", {item}, {}, {}, r)
            /\ UNCHANGED <<schema, store, now, signal>>

\* get(workflowId, undefined, joins)
GetJoined ==
    \E pk \in PartitionKeys(schema), joins \in {<< >>, <<"document">>} :
        LET r == getWithJoins(schema, store, related, signal, pk, {}, joins)
        IN  /\ last' = Put(Put(Call("get", {}, {pk}, {}, r), "joins", joins), "queried",
                           queriedWithEntity(schema, get(schema, store, signal, pk, {}), joins))
            /\ UNCHANGED <<schema, store, now, signal, related>>

RelationNext == Create \/ CreateFile \/ GetJoined

RelationSpec == RelationInit /\ [][RelationNext]_vars

(***************************************************************************)
(* A Post repository that is scanned and queried page by page: each call   *)
(* starts a new run of pages or continues the run of the last call with    *)
(* the lastKey that call returned.                                         *)
(***************************************************************************)
\* the partitionKey filters of a scan: none, one condition, two, or an empty
\* object
PartitionFilters ==
    {{}, {[eq |-> [id |-> "u1"]]}, {[eq |-> [id |-> "u1"], ge |-> [id |-> "u1"]]},
     {[o \in {} |-> o]}}

\* the sortKey filters of a scan: none, one condition or two
SortFilters == {{}, {[gt |-> "post-1"]}, {[ge |-> "post-1", le |-> "post-3"]}}

\* a scan or query call of a run of pages with its outcome; seen, total and
\* pages sum up the run so far
PageCall(op, filters, options, r, issued) ==
    LET continues == options.lastKey # {}
    IN  [op |-> op, filters |-> filters, limit |-> options.limit,
         startAt |-> options.lastKey, error |-> r.error, value |-> r.items,
         count |-> r.count, lastKey |-> r.lastKey, issued |-> issued,
         seen |-> IF continues THEN last.seen \cup r.items ELSE r.items,
         total |-> IF continues THEN last.total + r.count ELSE r.count,
         pages |-> IF continues THEN last.pages + 1 ELSE 1]

PagingInit ==
    /\ schema = "Post"
    /\ store = {}
    /\ now = 1
    /\ last = [op |-> "new", item |-> {}, pk |-> {}, sk |-> {}, error |-> "", value |-> {}]
    /\ signal = {}
    /\ related = << >>

\* scan(filters, {limit}) or, after a scan that returned a lastKey,
\* scan(filters, {limit, lastKey}) with the same filters and limit
ScanPage ==
    \E first \in {b \in BOOLEAN : b \/ (last.op = "scan" /\ last.lastKey # {})} :
        \E filters \in IF first THEN [partitionKey : PartitionFilters, sortKey : SortFilters]
                       ELSE {last.filters},
           limit \in IF first THEN {{}} \cup {{n} : n \in Limits}
                     ELSE {last.limit} :
            LET options == [index |-> {}, limit |-> limit,
                            lastKey |-> IF first THEN {} ELSE last.lastKey]
            IN  /\ \E r \in scan(schema, store, filters, options) :
                       last' = PageCall("scan", filters, options, r, r.issued)
                /\ UNCHANGED <<schema, store, now, signal, related>>

\* query(pk, undefined, {limit}) or, after a query that returned a lastKey,
\* query(pk, undefined, {limit, lastKey}) with the same key and limit
QueryPages ==
    \E first \in {b \in BOOLEAN : b \/ (last.op = "query" /\ last.lastKey # {})} :
        \E pk \in IF first THEN PartitionKeys(schema)
                  ELSE {last.filters},
           limit \in IF first THEN {{}} \cup {{n} : n \in Limits}
                     ELSE {last.limit} :
            LET options == [index |-> {}, limit |-> limit,
                            lastKey |-> IF first THEN {} ELSE last.lastKey]
                page(r) == [error |-> r.error, items |-> Range(r.items), count |-> r.count,
                            lastKey |-> r.lastKey]
            IN  /\ last' = PageCall("query", pk, options,
                                    page(query(schema, store, pk, {}, options)),
                                    queryIssued(schema, {}, options))
                /\ UNCHANGED <<schema, store, now, signal, related>>

PagingNext == Create \/ ScanPage \/ QueryPages

PagingSpec == PagingInit /\ [][PagingNext]_vars

\* the rows of a related class that belong to the user with id `owner`
RelatedRows(cls, owner) == {r \in related[cls] : r.userId = owner}

\* the outcome of the last get with joins, when a has-many join fails from
\* `full` related rows on
JoinContract(full) ==
    (last.op = "get" /\ "joins" \in DOMAIN last) =>
        \A pk \in last.pk :
            LET joins == Range(last.joins)
                posts == {transform("Post", r, "deserialize") : r \in RelatedRows("Post", pk)}
                profiles == {transform("Profile", r, "deserialize") :
                                r \in RelatedRows("Profile", pk)}
            IN  IF stored(schema, store, pk, {}) = {}
                THEN last.error = "" /\ last.value = {}
                ELSE IF "posts" \in joins /\ Cardinality(posts) >= full
                THEN last.error = "Unable to join all rows of Post" /\ last.value = {}
                ELSE /\ last.error = ""
                     /\ last.value # {}
                     /\ \A v \in last.value :
                          /\ "posts" \in joins =>
                                /\ "posts" \in DOMAIN v
                                /\ Range(v.posts) = posts
                                /\ Len(v.posts) = Cardinality(posts)
                          /\ "profile" \in joins =>
                                IF profiles = {} THEN "profile" \notin DOMAIN v
                                ELSE "profile" \in DOMAIN v /\ v.profile \in profiles

Ids(items) == {items[i].id : i \in DOMAIN items}

\* the stored rows of the queried partition that a page starting after
\* `startAt` has still to read
Remaining(pk, startAt) ==
    {r \in store : /\ r.userId = pk.id
                   /\ \A k \in startAt : Collate(r.id) > Collate(k.json.id)}

\* the last call is query(pk, undefined, {limit, lastKey}) on the Post table
PageReturned ==
    /\ last.op = "query"
    /\ last.sk = {}
    /\ last.error = ""

\* the page size of the last query
PageLimit == IF last.limit = {} THEN DefaultLimit ELSE CHOOSE n \in last.limit : TRUE

\* the page that follows the page the last query returned
NextPage ==
    query(schema, store, CHOOSE pk \in last.pk : TRUE, {},
          [index |-> {}, limit |-> last.limit, lastKey |-> last.lastKey])

\* a page and the page requested with its lastKey have no id in common, and a
\* page has no lastKey exactly when its limit is at least (`atLeast` = 0) or
\* more than (`atLeast` = 1) the number of rows that remained
PageContract(atLeast) ==
    PageReturned =>
        LET remaining == Remaining(CHOOSE pk \in last.pk : TRUE, last.startAt)
        IN  /\ Ids(last.value) \subseteq {r.id : r \in remaining}
            /\ last.count = (IF Cardinality(remaining) < PageLimit
                             THEN Cardinality(remaining) ELSE PageLimit)
            /\ last.lastKey # {} => Ids(last.value) \cap Ids(NextPage.items) = {}
            /\ PageLimit >= Cardinality(remaining) + atLeast => last.lastKey = {}

\* C12 as stated: two consecutive pages of one partition have disjoint id sets,
\* and a page requested with a limit >= the number of remaining rows has an
\* absent lastKey
PagesDisjointLastKeyAbsentAtLimit == PageContract(0)

\* C12: two consecutive pages of one partition have disjoint id sets, and a
\* page requested with a limit greater than the number of remaining rows has
\* an absent lastKey; a page whose limit equals the number of remaining rows
\* still carries a lastKey, and the page after it is empty
PagesDisjointLastKeyAbsentPastLimit ==
    /\ PageContract(1)
    /\ (PageReturned /\ last.count = PageLimit) =>
            /\ last.lastKey # {}
            /\ Cardinality(Remaining(CHOOSE pk \in last.pk : TRUE, last.startAt)) = PageLimit
                    => NextPage.count = 0 /\ NextPage.lastKey = {}

\* a second page was requested with the lastKey of the first, its limit was
\* exactly the number of rows that remained, and it came with a lastKey
PagesDisjointLastKeyAbsentPastLimitWitness ==
    /\ PageReturned
    /\ last.startAt # {}
    /\ last.count > 0
    /\ Cardinality(Remaining(CHOOSE pk \in last.pk : TRUE, last.startAt)) = PageLimit
    /\ last.lastKey # {}
\* the position in the sort key order of the first key a condition admits
Lowest(cnd) ==
    CASE "gt" \in DOMAIN cnd -> Collate(cnd.gt) + 1
      [] "ge" \in DOMAIN cnd -> Collate(cnd.ge)
      [] "eq" \in DOMAIN cnd -> Collate(cnd.eq)
      [] "between" \in DOMAIN cnd -> Collate(cnd.between[1])
      [] OTHER -> 1

\* the position in the sort key order of the last key a condition admits
Highest(cnd) ==
    CASE "lt" \in DOMAIN cnd -> Collate(cnd.lt) - 1
      [] "le" \in DOMAIN cnd -> Collate(cnd.le)
      [] "eq" \in DOMAIN cnd -> Collate(cnd.eq)
      [] "between" \in DOMAIN cnd -> Collate(cnd.between[2])
      [] OTHER -> Len(SortKeyOrder)

\* the stored rows of partition pk whose sort key a condition admits
Admitted(pk, cnd) ==
    {r \in store : /\ r.userId = pk.id
                   /\ Lowest(cnd) <= Collate(r.id)
                   /\ Collate(r.id) <= Highest(cnd)}

\* the last call is query(pk, cond) with one sort key condition
ConditionReturned ==
    /\ last.op = "query"
    /\ last.sk # {}
    /\ last.error = ""

\* C13: query(pk, cond) with one sort key condition returns, in ascending sort
\* key order, exactly the rows of partition pk whose sort key satisfies the
\* condition, as long as they fit the page: gt and lt exclude the bound, ge
\* and le include it, between includes both bounds
QueryRangeSemantics ==
    ConditionReturned =>
        LET pk == CHOOSE k \in last.pk : TRUE
            cnd == CHOOSE k \in last.sk : TRUE
            admitted == Admitted(pk, cnd)
        IN  Cardinality(admitted) <= DefaultLimit =>
                /\ last.count = Cardinality(admitted)
                /\ Len(last.value) = Cardinality(admitted)
                /\ {last.value[i] : i \in DOMAIN last.value}
                       = {transform(schema, r, "deserialize") : r \in admitted}
                /\ \A i, j \in DOMAIN last.value :
                       i < j => Collate(last.value[i].id) < Collate(last.value[j].id)

\* with post-1, post-2 and post-3 stored under the partition, {gt: 'post-1'}
\* returned post-2 and post-3, in this order
QueryRangeSemanticsWitness ==
    /\ ConditionReturned
    /\ last.sk = {[gt |-> "post-1"]}
    /\ {r.id : r \in Remaining(CHOOSE k \in last.pk : TRUE, {})}
           = {"post-1", "post-2", "post-3"}
    /\ Len(last.value) = 2
    /\ last.value[1].id = "post-2"
    /\ last.value[2].id = "post-3"
\* C14: getWithUniqueHashKey(pk) resolves with null when no row has partition
\* key pk, resolves with the row when exactly one has, and is rejected with
\* 'Hash key has more than 1 row' whenever more than one has; it never
\* resolves with one row out of several
UniqueHashKey ==
    last.op = "getWithUniqueHashKey" =>
        LET rows == Remaining(CHOOSE k \in last.pk : TRUE, {})
        IN  /\ rows = {} => last.error = "" /\ last.value = {}
            /\ Cardinality(rows) = 1 =>
                   /\ last.error = ""
                   /\ last.value = {transform(schema, r, "deserialize") : r \in rows}
            /\ Cardinality(rows) > 1 =>
                   /\ last.error = "Hash key has more than 1 row"
                   /\ last.value = {}

\* getWithUniqueHashKey was rejected on a partition that holds several rows
UniqueHashKeyWitness ==
    /\ last.op = "getWithUniqueHashKey"
    /\ Cardinality(Remaining(CHOOSE k \in last.pk : TRUE, {})) > 1
    /\ last.error = "Hash key has more than 1 row"
\* the fields of a class declared with a kind
FieldsOfType(c, types) == {k \in KeysOf(c) : Meta(c).type[k] \in types}

\* an entity was serialized and the record deserialized again
RoundTripped == last.op = "deserialize"

\* C15 as stated: deserialize(serialize(e)) equals e field by field, for
\* JSON-object, JSON-array, date, foreign-key and plain fields
CodecRoundTrip ==
    RoundTripped =>
        \A e \in last.entity, d \in last.value :
            \A k \in KeysOf(schema) : Read(d, k) = Read(e, k)

\* C15: deserialize(serialize(e)) equals e field by field, for JSON-object,
\* JSON-array, foreign-key and plain fields and for date fields other than the
\* epoch; a date field holding the epoch (time 0) comes back undefined
CodecRoundTripButEpoch ==
    RoundTripped =>
        \A e \in last.entity, d \in last.value :
            \A k \in KeysOf(schema) :
                IF k \in FieldsOfType(schema, {"date"}) /\ Read(e, k) = {[time |-> 0]}
                THEN Read(d, k) = {}
                ELSE Read(d, k) = Read(e, k)

\* a user with a JSON object, a JSON array and both dates was serialized and
\* deserialized to an equal user
CodecRoundTripButEpochWitness ==
    /\ RoundTripped
    /\ schema = "User"
    /\ \E e \in last.entity :
           /\ DOMAIN e = KeysOf(schema)
           /\ last.value = {e}
\* C16: deserializing a date field whose stored value is epoch 0 yields
\* undefined and not a Date; every other stored epoch-millisecond value n
\* yields the Date whose getTime() is n
EpochIsAbsent ==
    RoundTripped =>
        \A record \in last.item, d \in last.value :
            \A k \in FieldsOfType(schema, {"date"}) \cap DOMAIN record :
                IF record[k] = 0 THEN k \notin DOMAIN d
                ELSE k \in DOMAIN d /\ d[k] = [time |-> record[k]]

\* a record whose UpdatedAt is 0 and whose CreatedAt is not was deserialized:
\* UpdatedAt is undefined, CreatedAt is a Date
EpochIsAbsentWitness ==
    /\ RoundTripped
    /\ \E record \in last.item, d \in last.value :
           /\ {"CreatedAt", "UpdatedAt"} \subseteq DOMAIN record
           /\ record.UpdatedAt = 0
           /\ record.CreatedAt < 0
           /\ "UpdatedAt" \notin DOMAIN d
           /\ d.CreatedAt = [time |-> record.CreatedAt]
\* two values are the same value of the same kind: a Date and its epoch
\* milliseconds, or an object and its JSON text, are not
Same(a, b) == ToString(a) = ToString(b)

\* C17: serialize and deserialize leave the object passed to them unchanged,
\* and when the store write of create fails, the item object supplied by the
\* caller still holds its in-memory values apart from the timestamp fields
CodecLeavesArgument ==
    /\ last.op \in {"serialize", "deserialize"} => Same(last.arg, last.item)
    /\ (last.op = "create" /\ "arg" \in DOMAIN last /\ last.error # "") =>
           \A item \in last.item, after \in last.arg :
               \A k \in KeysOf(schema) \ {"CreatedAt", "UpdatedAt"} :
                   Same(Read(after, k), Read(item, k))
\* the last call named a table or an index for which no field carries
\* partition key metadata
Unscoped == getPartitionKeyMetaOf(schema, last.index) = {}

\* C18: get(pk) is rejected with 'Invalid type for partition key', before any
\* store read, whenever pk is a number and the partition key is declared a
\* string and is not a foreign key
TypeMismatchRejected ==
    (/\ last.op = "get"
     /\ "issued" \in DOMAIN last
     /\ \E pk \in last.pk : isNumber(pk)
     /\ \E m \in getPartitionKeyMeta(schema) :
            m.type = "string" /\ m.field \notin DOMAIN Meta(schema).belongsTo)
        => last.error = "Invalid type for partition key" /\ ~last.issued

\* C19: every get, update, delete, query and scan issued against a table or
\* a named secondary index for which no partition key field is declared
\* fails with 'No field annotated with @PartitionKey found.' and has not
\* called the store
KeyErrorBeforeStoreCall ==
    (/\ last.op \in {"get", "update", "delete", "query", "scan"}
     /\ "issued" \in DOMAIN last
     /\ Unscoped)
        => /\ last.error = "No field annotated with @PartitionKey found."
           /\ ~last.issued

\* C20: a repository of a class that declares no partition key is rejected
\* with SchemaError when it is constructed, and no operation runs on it
ConstructionRejectsUnkeyed ==
    (getPartitionKeyMeta(schema) = {} /\ "issued" \in DOMAIN last)
        => last.op = "new" /\ last.error = "SchemaError"

(***************************************************************************)
(* C21: scan filters and scan pages                                        *)
(***************************************************************************)
\* the stored rows after the key the last call started at, in scan order
ScanLeft ==
    Scanned(schema, {r \in store : \A k \in last.startAt :
                        Before(ScanPlace(schema, k.json), ScanPlace(schema, r))})

\* a stored row passes the filters of the last scan
ScanMatches(r) ==
    /\ \A cnd \in last.filters.partitionKey : \A m \in getPartitionKeyMeta(schema) :
           passes(r[m.field], scanCondition(schema, m.field, cnd))
    /\ \A cnd \in last.filters.sortKey : \A m \in getSortKeyMeta(schema) :
           passes(r[m.field], scanCondition(schema, m.field, cnd))

\* the filters of the last scan hold at most one condition per key part
OneConditionEach ==
    /\ \A cnd \in last.filters.partitionKey : Cardinality(DOMAIN cnd) = 1
    /\ \A cnd \in last.filters.sortKey : Cardinality(DOMAIN cnd) = 1

\* a filter of the last scan holds more than one condition
ManyConditions ==
    \/ \E cnd \in last.filters.partitionKey : Cardinality(DOMAIN cnd) > 1
    \/ \E cnd \in last.filters.sortKey : Cardinality(DOMAIN cnd) > 1

\* the number of matching rows left when the last scan started
MatchingLeft == Cardinality({i \in DOMAIN ScanLeft : ScanMatches(ScanLeft[i])})

\* C21 as stated: a scan with more than one condition on a key part is
\* rejected before the store is called, and an accepted scan pages like a
\* query: a page holds the first `limit` matching rows that are left, and
\* carries a lastKey exactly when `limit` matching rows were there to return
ScanPagesLikeQuery ==
    last.op = "scan" =>
        /\ ManyConditions => ~last.issued /\ last.error # ""
        /\ OneConditionEach =>
               /\ last.issued /\ last.error = ""
               /\ last.count = IF MatchingLeft < PageLimit THEN MatchingLeft ELSE PageLimit
               /\ last.lastKey = {} <=> MatchingLeft < PageLimit

\* C21 amended: a scan with more than one condition on a key part is rejected
\* before the store is called; a scan with at most one condition on each
\* declared key part calls the store, and its page holds the matching rows
\* among the first `limit` rows left in the table, whatever their number, and
\* carries the key of the last row read unless fewer than `limit` rows were
\* left; no row is returned twice in a run of pages
ScanPagesByRowsRead ==
    last.op = "scan" =>
        /\ ManyConditions =>
               /\ ~last.issued
               /\ last.error \in {"Must have only one filter condition for hashKey during scan",
                                   "Must have maximum one filter condition for sortKey during scan"}
        /\ OneConditionEach =>
               LET size == IF Len(ScanLeft) < PageLimit THEN Len(ScanLeft) ELSE PageLimit
                   page == {ScanLeft[i] : i \in {j \in 1..size : ScanMatches(ScanLeft[j])}}
               IN  /\ last.issued /\ last.error = ""
                   /\ last.value = {transform(schema, r, "deserialize") : r \in page}
                   /\ last.count = Cardinality(page)
                   /\ last.lastKey = {} <=> Len(ScanLeft) < PageLimit
                   /\ \A k \in last.lastKey : k.json = keyOf(schema, ScanLeft[size])
                   /\ last.total = Cardinality(last.seen)

\* a filtered scan returned a page short of its limit, with a lastKey, while
\* matching rows were still to come
ScanPagesByRowsReadWitness ==
    /\ last.op = "scan"
    /\ OneConditionEach
    /\ last.filters.sortKey # {}
    /\ last.count < PageLimit
    /\ last.count < MatchingLeft
    /\ last.lastKey # {}

(***************************************************************************)
(* C22: a join onto a type without a belongs-to partition key              *)
(***************************************************************************)
\* C22: a get that finds its item and joins a has-one field whose related
\* type has no belongs-to partition key fails with a relationship error and
\* never runs the related query with the item itself as partition key value
JoinWithoutBelongsToRejected ==
    (last.op = "get" /\ "joins" \in DOMAIN last /\ "queried" \in DOMAIN last
        /\ last.joins = <<"document">>
        /\ \E r \in store : r.workflowId \in last.pk)
    => (~last.queried /\ last.error = "RelationshipError")

(***************************************************************************)
(* C23: default index names                                                *)
(***************************************************************************)
\* the decorators that left the name of their index to the default
DefaultNamed == {m \in related : m.index.name = {} \/ m.decorator = "BelongsTo"}

WriteOps == {"create", "update", "delete"}

\* the step is a create, update or delete
Written == last'.op \in WriteOps

\* the outcome the call of the step has on its own, without subscribers
CalledAlone ==
    CASE last'.op = "create" ->
            create(schema, store, signal, now, CHOOSE i \in last'.item : TRUE)
      [] last'.op = "update" ->
            update(schema, store, signal, now, CHOOSE i \in last'.item : TRUE)
      [] last'.op = "delete" ->
            delete(schema, store, signal, now, CHOOSE k \in last'.pk : TRUE, last'.sk)

\* the key of the call of the step, and the items stored under it
WrittenKey ==
    IF last'.op = "delete" THEN inputKeyOf(schema, CHOOSE k \in last'.pk : TRUE, last'.sk)
    ELSE updateKeyOf(schema, CHOOSE i \in last'.item : TRUE)

StoredBefore == {transform(schema, r, "deserialize") : r \in {x \in store : keyOf(schema, x) = WrittenKey}}

StoredAfter == {x \in store' : keyOf(schema, x) = WrittenKey}

\* C24: when a handler called during a create, update or delete throws or
\* rejects, the call resolves with the result it has on its own, and its
\* write or removal is in the store
SinkFailureHarmless ==
    [][(Written /\ DOMAIN last'.invoked # {} /\ last'.outcome # "returns") =>
          /\ last'.error = ""
          /\ last'.value = CalledAlone.value
          /\ store' = CalledAlone.store
          /\ IF last'.op = "delete" THEN StoredAfter = {} ELSE StoredAfter # {}]_vars

\* a create resolved although the handler it called threw
SinkFailureHarmlessWitness ==
    /\ last.op = "create"
    /\ last.outcome = "throws"
    /\ DOMAIN last.invoked # {}
    /\ last.error = ""
    /\ \E r \in store : \A v \in last.value : r.id = v.id

\* the subscriptions of the kind of the step among A
OfKind(A) == {a \in A : a.event = last'.op \/ a.event = "all"}

\* the change event of a successful step: the kind, the entity and the
\* previous item; the entity of a delete is `deleted`
ChangeEvent(deleted) ==
    /\ \A e \in signal' :
           /\ e.event = last'.op /\ e.entityClass = schema
           /\ IF last'.op = "delete" THEN e.entity \in deleted ELSE e.entity \in last'.value
           /\ e.previous = IF last'.op = "create" THEN {} ELSE StoredBefore
    /\ signal' # {}

\* the contract of a step with the subscribers `invited` and the entity of
\* a delete among `deleted`
Delivery(invited, deleted) ==
    Written =>
        IF last'.error = "" /\ Meta(schema).publishChanges
        THEN /\ DOMAIN last'.invoked = invited
             /\ \A a \in DOMAIN last'.invoked : last'.invoked[a] = 1
             /\ store' = CalledAlone.store
             /\ ChangeEvent(deleted)
        ELSE /\ DOMAIN last'.invoked = {}
             /\ signal' = signal

\* C25 as stated: every active subscriber of the kind is called exactly once
\* after the write, with the new item as entity (the item stored under the
\* key after the call) and the item stored before as previous; a failed call
\* or a call on a class that does not publish calls none
EveryActiveSubscriberOnce ==
    [][Delivery(OfKind(related), {transform(schema, r, "deserialize") : r \in StoredAfter})]_vars

\* C25 amended: the subscribers called are the active ones whose signal is
\* still the one of the class (none since the last clearAll before they were
\* initialized), and the entity of a delete is the deleted item, the same as
\* its previous
EveryAttachedSubscriberOnce ==
    [][Delivery(OfKind({a \in related : a.attached}), StoredBefore)]_vars

\* an update of a stored user called the update handlers of two services and
\* the 'all' handler, with the stored item as previous
EveryAttachedSubscriberOnceWitness ==
    /\ last.op = "update" /\ last.error = ""
    /\ Cardinality(DOMAIN last.invoked) = 3
    /\ \E e \in signal : e.event = "update" /\ e.previous # {}

\* C28: initialize calls no handler with a change emitted before it, and a
\* subscription that was cleaned up is called for no later change
OnlyLaterChangesDelivered ==
    /\ last.op = "initialize" => DOMAIN last.invoked = {}
    /\ last.op \in WriteOps => DOMAIN last.invoked \subseteq related

(***************************************************************************)
(* C26: interleaved calls on one key                                       *)
(***************************************************************************)
\* the call of caller p ends in the step
Ended(p) == related[p].pc # "idle" /\ related'[p].pc = "idle"

\* the call of caller p run from start to end on the store of the step
RunAlone(p) ==
    IF related[p].op = "update"
    THEN update(schema, store, signal, now, related[p].item)
    ELSE delete(schema, store, signal, now, related[p].pk, {})

\* C26: when update and update, or update and delete, interleave on one key,
\* a call ends as it ends when run alone at that moment (it fails only when
\* it fails alone), and its write has the effect it has alone: the store
\* holds what the last write put or removed
InterleavedCallsAsAlone ==
    [][\A p \in Callers : Ended(p) =>
          /\ last'.error = RunAlone(p).error
          /\ last'.value = RunAlone(p).value
          /\ store' = RunAlone(p).store
          /\ (related[p].op = "update" /\ last'.error = "") =>
                 \E r \in store' : /\ keyOf(schema, r) = related[p].key
                                    /\ r.name = related[p].item.name
          /\ (related[p].op = "delete" /\ last'.error = "") =>
                 \A r \in store' : keyOf(schema, r) # related[p].key]_vars

\* an update returned whose item was written by the other caller between its
\* read and its write
InterleavedCallsAsAloneWitness ==
    /\ last.op = "update"
    /\ "raced" \in DOMAIN last
    /\ last.raced
    /\ last.error = ""

(***************************************************************************)
(* C27: InMemoryRepository against a Repository over a table               *)
(***************************************************************************)
\* C27: every call on an InMemoryRepository ends as the same call on a
\* Repository over a table does after the same calls: with the same error or
\* the same items
InMemoryAsRealStore ==
    "realError" \in DOMAIN last =>
        /\ (last.error = "") = (last.realError = "")
        /\ last.error = "" => last.value = last.realValue

(***************************************************************************)
(* C29: falsy sort key values                                              *)
(***************************************************************************)
\* C29: get(pk, sk) and delete(pk, sk) with a sort key value that create
\* accepts, 0 included, send the partition key and the sort key to the store:
\* a get of a created item returns it, a delete removes it
FalsySortKeySent ==
    (last.op \in {"get", "delete"} /\ last.sk # {}) =>
        /\ \A pk \in last.pk : complete(schema, pk, last.sk)
        /\ last.error # "The number of conditions on the keys is invalid"

(***************************************************************************)
(* C30: a run of pages                                                     *)
(***************************************************************************)
\* the items one call of the last run's kind returns under the given limit,
\* and whether that call returned a lastKey
AtOnce(limit) ==
    LET options == [index |-> {}, limit |-> limit, lastKey |-> {}]
    IN  IF last.op = "query"
        THEN LET r == query(schema, store, last.filters, {}, options)
             IN  [items |-> Range(r.items), more |-> r.lastKey # {}]
        ELSE LET r == CHOOSE x \in scan(schema, store, last.filters, options) : TRUE
             IN  [items |-> r.items, more |-> r.lastKey # {}]

\* C30: with no write in between, a run of query (or scan) pages that passes
\* each returned lastKey on with the same limit takes at most one page more
\* than there are rows; once a page comes back without lastKey the pages
\* together hold every matching item, each exactly once: the items of one
\* call whose limit is above the number of rows, and those of one call under
\* the default limit when that call returns no lastKey
PagedRunComplete ==
    (last.op \in {"query", "scan"} /\ last.error = "") =>
        /\ last.pages <= Cardinality(store) + 1
        /\ last.lastKey = {} =>
               /\ last.seen = AtOnce({Cardinality(store) + 1}).items
               /\ last.total = Cardinality(last.seen)
               /\ ~AtOnce({}).more => last.seen = AtOnce({}).items

\* a run of three pages or more has ended and returned several items
PagedRunCompleteWitness ==
    /\ last.op \in {"query", "scan"}
    /\ last.error = ""
    /\ last.lastKey = {}
    /\ last.pages >= 3
    /\ last.total >= 2

================================================================
